---- MODULE Spec2Model ----
(***************************************************************************)
(* A model of mx-puppet-skype: the per-account relay state machine of      *)
(* src/src/skype.ts (class Skype) and the remote session of                *)
(* src/unnamed/part_000 (class Client).                                    *)
(*                                                                         *)
(* The module holds several specifications over one set of variables:      *)
(*   Spec        account lifecycle: newPuppet, deletePuppet, startClient,  *)
(*               the error handler and the reconnect timers                *)
(*   SpecCatch   the same, with the history of where connect() failed      *)
(*   SpecLive    the same as Spec, with the fairness of the event loop     *)
(*   SpecStale   the same, with the history of which Clients emitted error *)
(*   SpecConnect one Client from construction through connect(), with      *)
(*               disconnect() called at any point                          *)
(*   SpecCache   the contact and conversation caches of one Client:        *)
(*               getContact, getConversation, list loads and refreshes     *)
(*   SpecRoom    the conversation cache alone: getConversation and the     *)
(*               replies to its lookups                                    *)
(*   SpecRelay   one conversation of one account: the handlers of home     *)
(*               events and of remote events around the deduplicator,      *)
(*               with the history of the first send's echoes               *)
(*   SpecEdit    the same handlers, with the history of each step's        *)
(*               decisions                                                 *)
(*   SpecFlight  the same handlers, with the history of the decisions on   *)
(*               events that meet a send in flight or a completed one      *)
(*   SpecDrop    the same handlers, with the history of the handlers that  *)
(*               returned because nothing resolved, and the remote events  *)
(*               of all four kinds                                         *)
(*   SpecSession one account through error, stop and reconnect, with what  *)
(*               its Client object owns: the handled ids, a cache entry    *)
(*               and the refresh timer                                     *)
(*   SpecInbound  the handlers of the remote events of one account from    *)
(*               the Client's emit to the home operation, with their       *)
(*               contact and conversation lookups                          *)
(*   SpecIsolate two accounts in one conversation around the one           *)
(*               deduplicator of class Skype, as a pair of runs that       *)
(*               differ only in the activity of the first account          *)
(*   SpecEncode  MatrixMessageParser.parse on home markup, applied once    *)
(*               and again to its own output                               *)
(*   SpecDecode  SkypeMessageParser.parse on remote markup                 *)
(* Each specification leaves the variables of the others unchanged.        *)
(*                                                                         *)
(* JavaScript is single threaded: a handler runs until its next await on   *)
(* real I/O, and there another callback may run.  One action of the model  *)
(* is one such run-to-suspension segment.  An await on a promise that is   *)
(* already settled (Client.disconnect on skype-http's stopListening, which *)
(* only stops the poller) lets no timer or network callback in, so the     *)
(* segment goes on through it.  Time is not measured: a scheduled timer    *)
(* fires at some later step.                                               *)
(***************************************************************************)
EXTENDS Integers, Sequences, FiniteSets, Bags, TLC

\* ---------------------------------------------------------------- bounds
MaxClients == 2        \* Client objects constructed in one run
MaxErrors == 2         \* "error" events delivered in one run
MaxDisconnects == 2    \* disconnect() calls on the Client of SpecConnect
MaxLookups == 2        \* remote lookups in flight at once in SpecCache
MaxSends == 1          \* home messages and edits handled in SpecRelay
MaxWaiting == 1        \* remote-event handlers waiting on the lock in SpecRelay
MaxDepth == 2          \* nesting of elements in a parsed message
MaxText == 1           \* characters of one run of text in a parsed message
MaxIsoSends == 1       \* home messages of each account in SpecIsolate
MaxIsoEvents == 2      \* remote events of the second account in SpecIsolate
MaxEvents == 2
MaxEmits == 2         \* remote events emitted in SpecInbound

PuppetIds == {1}
TimerOrigins == {"error", "connect"}   \* the two setTimeout call sites

VARIABLES
    puppets,    \* Skype.puppets: id -> [reg, state]
    clients,    \* the Client objects that can still act: a bag of records
    nClients,   \* Client objects constructed so far
    errTasks,   \* suspended "error" handlers: id -> stage -> how many
    timers,     \* pending setTimeout(startClient, MINUTE): id -> call site -> how many
    errCount,   \* "error" events delivered so far
    fatal,      \* history: id -> a fatal error handler has stopped the account
    lifeLog,    \* history: track says whether a Client records where its
                \* connect() failed ("catch") or not ("calls")
    io,         \* what the last step did towards the outside: "timer" when a
                \* reconnect timer's callback ran, then the external calls issued
    client,     \* SpecConnect: the Client object, its fields and the position
                \* of its connect() call
    connLog,    \* SpecConnect: history of that connect() call
    contacts,       \* SpecCache: Client.contacts, full id -> entry
    conversations,  \* SpecCache: Client.conversations, id -> entry
    lookups,        \* SpecCache: api.getContact / api.getConversation calls
                    \* in flight, a bag of [kind, key]
    cacheLog,       \* SpecCache: history of the calls
    dedup,            \* SpecRelay: Skype.messageDeduplicator, for the one room key
    deletedMessages,  \* SpecRelay: p.deletedMessages
    sends,            \* SpecRelay: handleMatrixMessage / handleMatrixEdit calls
                      \* awaiting their send, a bag of [kind, id]
    waiting,          \* SpecRelay: remote events whose handlers are suspended
                      \* in dedupe() on the room's lock, in arrival order
    relayLog,         \* SpecRelay: history
    session,      \* SpecInbound: the process and its Client: "up" or "crashed"
    handlers,     \* SpecInbound: the event handlers suspended in a lookup, a
                  \* set of [n, from, conv, contact, pc], n the arrival number
    inLog,        \* SpecInbound: history
    iso,          \* SpecIsolate: runs, run -> [ded, deleted, waiting], the
                  \* shared deduplicator, the second account's
                  \* p.deletedMessages and its handlers suspended in
                  \* dedupe(), in arrival order; log, the sends in flight
                  \* (the same in both runs) and the history of the runs
    parser,       \* SpecEncode, SpecDecode: markup, the argument msg of
                  \* parse, a sequence of tokens; opts, its options; emoji,
                  \* the names and glyphs node-emoji knows; parsed, the
                  \* results of parse so far
    acct          \* SpecSession: one account: reg, its entry in the
                  \* registry; client, its p.client with what that object
                  \* owns; made, the Clients constructed; timers, the
                  \* reconnect timers pending; pending, the ids of the
                  \* remote messages whose handler has not called dedupe()
                  \* yet; log, the history

lifeVars == <<puppets, clients, nClients, errTasks, timers, errCount, fatal, io>>
connVars == <<client, connLog>>
cacheVars == <<contacts, conversations, lookups, cacheLog>>
relayVars == <<dedup, deletedMessages, sends, waiting, relayLog>>
inVars == <<session, handlers, inLog>>
isoVars == <<iso>>
textVars == <<parser>>
sessVars == <<acct>>
vars == <<lifeVars, connVars, cacheVars, relayVars, inVars, isoVars, textVars, sessVars,
          lifeLog>>
rest == <<connVars, cacheVars, relayVars, inVars, isoVars, textVars, sessVars>>
notLife == <<connVars, cacheVars, relayVars, inVars, isoVars, textVars, sessVars,
  lifeLog>>
notConnect == <<lifeVars, cacheVars, relayVars, inVars, isoVars, textVars, sessVars,
  lifeLog>>
notCache == <<lifeVars, connVars, relayVars, inVars, isoVars, textVars, sessVars,
  lifeLog>>
notRelay == <<lifeVars, connVars, cacheVars, inVars, isoVars, textVars, sessVars,
  lifeLog>>
notInbound == <<lifeVars, connVars, relayVars, isoVars, textVars, sessVars,
  lifeLog>>
notIsolate == <<lifeVars, connVars, cacheVars, relayVars, inVars, textVars, sessVars,
  lifeLog>>
notText == <<lifeVars, connVars, cacheVars, relayVars, inVars, isoVars, sessVars,
  lifeLog>>
notSession == <<lifeVars, connVars, cacheVars, relayVars, inVars, isoVars, textVars,
  lifeLog>>

\* ------------------------------------------------------------- Client
\* A Client object.  pup is the account it was constructed for; own says
\* whether it is that account's p.client ("cur"), was replaced by a later
\* startClient ("old"), or belongs to a puppet entry that was deleted from
\* the registry ("orphan"); api, listening and interval are this.api being
\* set, the api's poller running and contactsInterval being armed; pc is the
\* position of the startClient call that constructed it, and failedAt says,
\* while the catch block runs, what threw into it: the credential login
\* ("login"), a later step of connect() ("connect") or a call startClient
\* made after connect() returned ("after"); it stays "none" where the history
\* does not track it.
NewClient(id) ==
    [pup |-> id, own |-> "cur", api |-> FALSE, listening |-> FALSE,
     interval |-> FALSE, pc |-> "login", failedAt |-> "none"]

\* The Client of SpecConnect, as its constructor leaves it.  state is the
\* session blob being present; from says which login produced this.api;
\* listening and handler are the current api's poller running and
\* registerErrorHandler having been called on it; resolved, graceTimer and
\* once are the flag, the TIMEOUT_SUCCESS timer and the api.once("error")
\* listener of connect()'s grace period; pc is the position of connect().
ConstructClient(st) ==
    [state |-> st, api |-> FALSE, from |-> "none", connectedWithAuth |-> FALSE,
     listening |-> FALSE, interval |-> FALSE, handler |-> FALSE,
     resolved |-> FALSE, graceTimer |-> FALSE, once |-> FALSE, pc |-> "new"]

\* History of the connect() call: logins attempted, the steps that failed,
\* disconnect() calls made, whether one of them found something to stop,
\* the last operation and whether it threw.
NoLog ==
    [sessLogins |-> 0, credLogins |-> 0, failed |-> {}, disconnects |-> 0,
     stopped |-> FALSE, last |-> "new", error |-> FALSE]

\* A Client that no code will touch again with any effect: its startClient
\* call has ended, nothing listens and no timer is armed.  Such objects are
\* left out of clients.
Inert(c) == c.pc = "done" /\ ~c.listening /\ ~c.interval

Norm(cs) == [c \in {x \in DOMAIN cs : ~Inert(x)} |-> cs[c]]

Replace(cs, c, d) == Norm((cs (-) SetToBag({c})) (+) SetToBag({d}))

\* A mutation of disconnect: stopListening is called without looking at
\* this.api, a TypeError on a Client that never logged in.
disconnectUnguarded(c) ==
    [client |-> [c EXCEPT !.listening = IF c.api THEN FALSE ELSE @,
                          !.interval = IF c.api THEN FALSE ELSE @],
     error |-> ~c.api]

\* Client.disconnect: stopListening when there is an api, clearInterval when
\* the contact-refresh timer is armed.  error says whether the call threw.
disconnect(c) ==
    [client |-> [c EXCEPT !.listening = IF c.api THEN FALSE ELSE @,
                          !.interval = FALSE],
     error |-> FALSE]

\* ------------------------------------------------------------- Skype
DisconnectCur(id, c) ==
    IF c.pup = id /\ c.own = "cur" THEN disconnect(c).client ELSE c

\* Skype.stopClient: disconnects the client the registry holds now.
stopClient(ps, cs, id) ==
    IF ~ps[id].reg THEN cs
    ELSE LET F(c) == DisconnectCur(id, c) IN Norm(BagOfAll(F, cs))

Demote(id, c) == IF c.pup = id /\ c.own = "cur" THEN [c EXCEPT !.own = "old"] ELSE c

ConnectCall(ps, id) == IF ps[id].state THEN "connect:state" ELSE "connect:credentials"

\* The client.on() calls of startClient, in its order.
Listened ==
    <<"on:text", "on:edit", "on:location", "on:file", "on:typing", "on:presence",
      "on:updateContact", "on:error">>

\* A mutation: connect() is called before the listeners are registered.
connectThenOn(call) == <<call>> \o Listened

\* startClient after new Client: client.on() for each event, then
\* client.connect().
onThenConnect(call) == Listened \o <<call>>

\* A mutation of startClient: the registry is not consulted.
startClientUnchecked(ps, cs, id) ==
    LET F(c) == Demote(id, c)
    IN [clients |-> BagOfAll(F, cs) (+) SetToBag({NewClient(id)}),
        made |-> 1,
        io |-> onThenConnect(ConnectCall(ps, id))]

\* Skype.startClient up to its first suspension (await client.connect()):
\* returns when the account is not registered, else constructs a Client
\* from the stored data (with the session blob when there is one), makes it
\* the account's p.client and calls connect().
startClient(ps, cs, id) ==
    IF ~ps[id].reg
    THEN [clients |-> cs, made |-> 0, io |-> <<>>]
    ELSE LET F(c) == Demote(id, c)
         IN [clients |-> BagOfAll(F, cs) (+) SetToBag({NewClient(id)}),
             made |-> 1,
             io |-> onThenConnect(ConnectCall(ps, id))]

Orphan(id, c) == IF c.pup = id THEN [c EXCEPT !.own = "orphan"] ELSE c

\* Skype.deletePuppet: disconnects the current client and drops the entry;
\* the Clients constructed for the entry keep their reference to it.
deletePuppet(ps, cs, id) ==
    IF ~ps[id].reg
    THEN [puppets |-> ps, clients |-> cs]
    ELSE LET F(c) == Orphan(id, DisconnectCur(id, c))
         IN [puppets |-> [ps EXCEPT ![id].reg = FALSE],
             clients |-> Norm(BagOfAll(F, cs))]

\* setTimeout(() => startClient(id), MINUTE), in the error handler
\* (origin "error") and in startClient's catch block (origin "connect").
setTimeout(ts, id, origin) == [ts EXCEPT ![id][origin] = @ + 1]

PendingReconnects(id) == timers[id]["error"] + timers[id]["connect"]

\* ------------------------------------------------------ Client caches
\* Ids.  A contact id with a numeric start ("8:alice") is a full id; one
\* without ("alice") gets the start "8:".  A room id is a conversation id,
\* for a direct conversation behind the prefix dm-<puppetId>-.
FullIds == {"8:alice", "28:alice"}
ConvIds == {"8:alice", "19:group"}

\* id.match(/^\d+:/)
hasStart(id) == id \in FullIds

\* hasStart ? id : `8:${id}`
FullId(id) == IF hasStart(id) THEN id ELSE "8:alice"

\* this.contacts.get(key) || null, and the same for conversations.
Get(map, key) == IF map[key] = "object" THEN "object" ELSE "null"

\* The catch of a failed lookup: map.set(key, null).
\* A mutation: the failure is not recorded.
lookupFailedUncached(map, key) == map

lookupFailed(map, key) == [map EXCEPT ![key] = "null"]

\* What a step that is no call of getContact or getConversation records.
NoCall(op) == [op |-> op, key |-> "", ret |-> "", lookup |-> FALSE, afterFail |-> FALSE]

CacheInit ==
    /\ contacts = [k \in FullIds |-> "none"]
    /\ conversations = [k \in ConvIds |-> "none"]
    /\ lookups = EmptyBag
    /\ cacheLog = [failed |-> {}, stored |-> {}, startup |-> "idle", startups |-> 0,
                   last |-> NoCall("new")]

\* --------------------------------------------------- MessageDeduplicator
\* The deduplicator of mx-puppet-bridge, for one room key: the room's lock,
\* the author ids seen and the data keys <<"m", author, message>> and
\* <<"e", author, event id>>.  An event id of 0 is no event id.
Contents == {"hello", ""}          \* what a home message may render to
ForeignIds == {101}                \* remote ids of messages sent elsewhere

\* lock(roomId, authorId, message)
lock(d, author, msg) ==
    [locked |-> TRUE,
     authorIds |-> d.authorIds \cup {author},
     data |-> IF msg # "" THEN d.data \cup {<<"m", author, msg>>} ELSE d.data]

\* unlock(roomId, authorId, eventId)
unlock(d, author, id) ==
    [locked |-> FALSE,
     authorIds |-> d.authorIds \cup {author},
     data |-> IF id # 0 THEN d.data \cup {<<"e", author, id>>} ELSE d.data]

DedupKeys(author, id, msg) ==
    (IF id # 0 THEN {<<"e", author, id>>} ELSE {})
        \cup (IF msg # "" THEN {<<"m", author, msg>>} ELSE {})

\* dedupe(roomId, authorId, eventId, message) once the lock is free: a hit
\* when the event-id key or the message key is there; both are removed.
dedupe(d, author, id, msg) ==
    [hit |-> author \in d.authorIds /\ DedupKeys(author, id, msg) \cap d.data # {},
     dedup |-> IF author \in d.authorIds
               THEN [d EXCEPT !.data = @ \ DedupKeys(author, id, msg)]
               ELSE d]

\* Whether dedupe() has to wait: the author is known and the room is locked.
dedupeWaits(d, author) == author \in d.authorIds /\ d.locked

\* ------------------------------------------------------- relay handlers
\* handleSkypeText after its dedupe(): the home operations it issues.
\* A mutation: the result of dedupe() is ignored.
handleSkypeTextAlways(hit) == <<"sendMessage">>

handleSkypeText(hit) == IF hit THEN <<>> ELSE <<"sendMessage">>

\* The contents of a remote text event that are one URIObject element
\* with an OriginalName child of v="f": with a uri attribute and without.
URIObjects ==
    {"<URIObject uri='u'><OriginalName v='f'/></URIObject>",
     "<URIObject><OriginalName v='f'/></URIObject>"}

\* obj.attr("uri") of handleSkypeText, "" where there is none.
\* A mutation: the attribute is not read.
uriIgnored(msg) == ""

uri(msg) == IF msg = "<URIObject uri='u'><OriginalName v='f'/></URIObject>" THEN "u" ELSE ""

\* handleSkypeText: msg.trim() starts with <URIObject and ends with
\* </URIObject> and the element has a uri; the Client emits "text" for
\* the message type RichText only, so rich holds.
isFile(msg) == msg \in URIObjects /\ uri(msg) # ""

\* handleSkypeFile after its dedupe(): the home operations it issues.
handleSkypeFile(hit) == IF hit THEN <<>> ELSE <<"sendFileDetect">>

\* handleMatrixMessage, handleMatrixEdit, handleMatrixRedact and
\* handleMatrixFile go on when the puppet p is registered and
\* getConversation returned a conversation.
\* A mutation: the handler goes on without either check.
roomFoundUnchecked(p, conversation) == TRUE

roomFound(p, conversation) == p /\ conversation

\* getSendParams: null when getContact or getConversation returned none.
\* A mutation: the parameters are built whatever the two returned.
getSendParamsUnchecked(contact, conversation) == TRUE

getSendParams(contact, conversation) == contact /\ conversation

\* handleSkypeEdit after its dedupe(): the home operations it issues.
\* A mutation: deletedMessages is not consulted.
handleSkypeEditNoDeleted(hit, content, id, deleted) ==
    IF hit THEN <<>>
    ELSE IF content # "" THEN <<"sendEdit">> ELSE <<"sendRedact">>

handleSkypeEdit(hit, content, id, deleted) ==
    IF hit THEN <<>>
    ELSE IF content # "" THEN <<"sendEdit">>
    ELSE IF id \in deleted THEN <<>>
    ELSE <<"sendRedact">>

\* The history kept of the relay.  track says which part is recorded:
\* "echo", the decisions on the remote text events checked against the
\* sender and content of the first send after it completed (hist), as long
\* as nothing else touched its keys (watch: no other lock of that content,
\* no remote edit checked against it, no expiry, no lock timeout);
\* "steps", the decisions of the last step (last): for each remote event
\* whose dedupe() the step ran, [kind, empty,
\* redacted, hit, out]: the event's kind, whether its content is empty,
\* whether a home redaction of its id was forwarded and is still in its
\* window, whether dedupe() hit, and the home operations issued; "flight",
\* the decisions of the last step on the events of the own sender met by
\* echo or owed, with echo, whether a message send with its
\* content was awaiting its result when the event arrived, waited, whether
\* its dedupe() waited on the lock, mark, what happened to its content
\* since a send last locked it ("fresh": nothing, "used": dedupe() ran for
\* an event of the own sender with that content, "expired": an entry of the
\* deduplicator expired), and owed, whether its id is that of an item whose
\* send completed, with no event of that id checked and no expiry since;
\* "drop", what "steps" records and, for a handler that returned because
\* the account, the contact or the conversation did not resolve, the entry
\* [dropped, out] of last, with the remote events of all four kinds, and
\* synced, the remote ids eventSync.insert has stored.
NoRelayLog(track) ==
    [track |-> track, nSends |-> 0, sent |-> <<>>, redacted |-> {},
     watch |-> "none", hist |-> <<>>, last |-> <<>>,
     mark |-> [c \in Contents |-> "none"], owed |-> {}, synced |-> {}]

RelayState ==
    /\ dedup = [locked |-> FALSE, authorIds |-> {}, data |-> {}]
    /\ deletedMessages = {}
    /\ sends = EmptyBag
    /\ waiting = <<>>

RelayInit == RelayState /\ relayLog = NoRelayLog("echo")

\* The history of the lifecycle: under the track "stale" it also says, for
\* each account, whether a Client emitted "error" while it was the
\* account's p.client (curErr).
NoLifeLog(track) ==
    IF track = "stale"
    THEN [track |-> track, curErr |-> [id \in PuppetIds |-> FALSE]]
    ELSE [track |-> track]

LifeInit(track) ==
    /\ lifeLog = NoLifeLog(track)
    /\ puppets = [id \in PuppetIds |-> [reg |-> FALSE, state |-> FALSE]]
    /\ clients = EmptyBag
    /\ nClients = 0
    /\ errTasks = [id \in PuppetIds |-> [s \in {"status", "fatalStatus"} |-> 0]]
    /\ timers = [id \in PuppetIds |-> [o \in TimerOrigins |-> 0]]
    /\ errCount = 0
    /\ fatal = [id \in PuppetIds |-> FALSE]
    /\ io = <<>>

ConnectIdle == client = ConstructClient(FALSE) /\ connLog = NoLog

\* History of SpecInbound: events emitted, the arrival numbers of the
\* events whose home operation was called, in the order of the calls, the
\* home operations awaited, whether one has thrown and whether one was
\* called after that.
InboundIdle ==
    /\ session = "up"
    /\ handlers = {}
    /\ inLog = [nEvents |-> 0, ops |-> <<>>, pending |-> 0, threw |-> FALSE,
                afterThrow |-> FALSE]

\* The two runs of SpecIsolate: in "with" the first account is active, in
\* "without" it is not.
Runs == {"with", "without"}

\* The deduplicator of class Skype as its constructor leaves it: the room
\* keys locked, the author ids seen, the entries <<room key, entry>>.
\* History of SpecIsolate: out[r][n] is what the handler of the second
\* account's n-th remote event did in run r.
IsolateIdle ==
    iso = [runs |-> [r \in Runs |->
                       [ded |-> [locks |-> {}, authorIds |-> {}, data |-> {}],
                        deleted |-> {}, waiting |-> <<>>]],
           log |-> [aSends |-> 0, aInFlight |-> 0, bSends |-> 0, bInFlight |-> 0,
                    nEvents |-> 0,
                    out |-> [r \in Runs |-> [n \in 1..MaxIsoEvents |-> "none"]]]]

\* parse has been called with no message.
NoMarkup ==
    [markup |-> <<>>, opts |-> [noQuotes |-> FALSE],
     emoji |-> [byName |-> {}, byCode |-> FALSE], parsed |-> <<>>]

\* No remote event, no second account and no message being parsed.
\* The ids of the remote messages of SpecSession.
EventIds == {7, 8}

\* The Client of SpecSession, as its constructor leaves it: handledIds is
\* empty and so are the caches; contact is the entry of contacts under the
\* one contact id the events come from.  pc is "none" while the account
\* has no Client.
SessionClient(pc) ==
    [api |-> FALSE, listening |-> FALSE, interval |-> FALSE, pc |-> pc,
     handledIds |-> {}, contact |-> "none"]

\* History of SpecSession: emits[id], how often a new-message event with
\* the id was emitted to the relay within ID_TIMEOUT of the id's first
\* entry into a handledIds; echo, the ids among them whose event dedupe()
\* suppressed; refreshFailed, whether updateContacts of the account's
\* Client has failed; late, whether a handler issued a home operation
\* while the account had no entry in the registry.
SessionIdle ==
    acct = [reg |-> FALSE, client |-> SessionClient("none"), made |-> 0, timers |-> 0,
            pending |-> {},
            log |-> [emits |-> [id \in EventIds |-> 0], echo |-> {},
                     refreshFailed |-> FALSE, late |-> FALSE]]

Idle == InboundIdle /\ IsolateIdle /\ parser = NoMarkup /\ SessionIdle

Init == LifeInit("calls") /\ ConnectIdle /\ CacheInit /\ RelayInit /\ Idle

\* ------------------------------------------------------------ actions
\* Skype.newPuppet(id, data): deletes a registered entry first, registers
\* the new one and runs startClient to its first suspension.  The Client
\* newPuppet constructs itself is replaced by startClient in the same
\* segment and never connects, so it is not counted.
newPuppet(id, st) ==
    LET d == deletePuppet(puppets, clients, id)
        ps == [d.puppets EXCEPT ![id] = [reg |-> TRUE, state |-> st]]
        s == startClient(ps, d.clients, id)
    IN /\ nClients + s.made <= MaxClients
       /\ puppets' = ps
       /\ clients' = s.clients
       /\ nClients' = nClients + s.made
       /\ io' = s.io
       /\ fatal' = [fatal EXCEPT ![id] = FALSE]
       /\ UNCHANGED <<errTasks, timers, errCount>>
    /\ UNCHANGED notLife

\* Skype.deletePuppet(id) called by the bridge (onPuppetDelete).
DeletePuppet(id) ==
    /\ puppets[id].reg
    /\ LET d == deletePuppet(puppets, clients, id)
       IN puppets' = d.puppets /\ clients' = d.clients
    /\ io' = <<>>
    /\ UNCHANGED <<nClients, errTasks, timers, errCount, fatal>>
    /\ UNCHANGED notLife

\* A reconnect timer fires: the callback calls startClient(id).
TimerFire(id, origin) ==
    LET s == startClient(puppets, clients, id)
    IN /\ timers[id][origin] > 0
       /\ nClients + s.made <= MaxClients
       /\ timers' = [timers EXCEPT ![id][origin] = @ - 1]
       /\ clients' = s.clients
       /\ nClients' = nClients + s.made
       /\ io' = <<"timer">> \o s.io
       /\ UNCHANGED <<puppets, errTasks, errCount, fatal>>
    /\ UNCHANGED notLife

\* startClient's catch block up to its await: the status message is sent.
Catch(c) ==
    [c EXCEPT !.pc = "statusFailed",
              !.failedAt = IF lifeLog.track # "catch" THEN "none"
                           ELSE IF c.pc = "login" THEN "login"
                           ELSE IF c.pc \in {"startupApi", "setStatus"} THEN "connect"
                           ELSE "after"]

\* connect(): skypeHttp.connect returns or throws.
ConnectLogin(c, ok) ==
    /\ c.pc = "login"
    /\ clients' = Replace(clients, c,
                      IF ok THEN [c EXCEPT !.api = TRUE, !.pc = "startupApi"] ELSE Catch(c))
    /\ io' = IF ok THEN <<>> ELSE <<"sendStatusMessage">>
    /\ UNCHANGED <<puppets, nClients, errTasks, timers, errCount, fatal>>
    /\ UNCHANGED notLife

\* connect(): startupApi returns (contact-refresh timer armed), then
\* registerErrorHandler and listen(); or startupApi throws.
ConnectStartup(c, ok) ==
    /\ c.pc = "startupApi"
    /\ clients' = Replace(clients, c,
                      IF ok THEN [c EXCEPT !.interval = TRUE, !.listening = TRUE,
                                           !.pc = "setStatus"]
                      ELSE Catch(c))
    /\ io' = IF ok THEN <<>> ELSE <<"sendStatusMessage">>
    /\ UNCHANGED <<puppets, nClients, errTasks, timers, errCount, fatal>>
    /\ UNCHANGED notLife

\* connect(): setStatus("Online") returns and connect() with it, and
\* startClient calls setUserId; or setStatus throws.
ConnectSetStatus(c, ok) ==
    /\ c.pc = "setStatus"
    /\ clients' = Replace(clients, c,
                      IF ok THEN [c EXCEPT !.pc = "setUserId"] ELSE Catch(c))
    /\ io' = IF ok THEN <<"setUserId">> ELSE <<"sendStatusMessage">>
    /\ UNCHANGED <<puppets, nClients, errTasks, timers, errCount, fatal>>
    /\ UNCHANGED notLife

\* startClient: setUserId returns, p.data.state = client.getState and
\* setPuppetData is called; or setUserId throws.
SetUserId(c, ok) ==
    /\ c.pc = "setUserId"
    /\ clients' = Replace(clients, c,
                      IF ok THEN [c EXCEPT !.pc = "setPuppetData"] ELSE Catch(c))
    /\ puppets' = IF ok /\ c.own # "orphan"
                  THEN [puppets EXCEPT ![c.pup].state = TRUE]
                  ELSE puppets
    /\ io' = IF ok THEN <<"setPuppetData">> ELSE <<"sendStatusMessage">>
    /\ UNCHANGED <<nClients, errTasks, timers, errCount, fatal>>
    /\ UNCHANGED notLife

\* startClient: setPuppetData returns and "connected" is sent; or it throws.
SetPuppetData(c, ok) ==
    /\ c.pc = "setPuppetData"
    /\ clients' = Replace(clients, c,
                      IF ok THEN [c EXCEPT !.pc = "statusConnected"] ELSE Catch(c))
    /\ io' = <<"sendStatusMessage">>
    /\ UNCHANGED <<puppets, nClients, errTasks, timers, errCount, fatal>>
    /\ UNCHANGED notLife

\* startClient: sendStatusMessage("connected") returns, or throws.
StatusConnected(c, ok) ==
    /\ c.pc = "statusConnected"
    /\ clients' = Replace(clients, c,
                      IF ok THEN [c EXCEPT !.pc = "done"] ELSE Catch(c))
    /\ io' = IF ok THEN <<>> ELSE <<"sendStatusMessage">>
    /\ UNCHANGED <<puppets, nClients, errTasks, timers, errCount, fatal>>
    /\ UNCHANGED notLife

\* startClient ends from its catch block.
EndCatch(c) == [c EXCEPT !.pc = "done", !.failedAt = "none"]

\* startClient's catch block: sendStatusMessage("Failed to connect...")
\* returns and the retry is scheduled; or it throws out of startClient.
StatusFailed(c, ok) ==
    /\ c.pc = "statusFailed"
    /\ clients' = Replace(clients, c, EndCatch(c))
    /\ timers' = IF ok THEN setTimeout(timers, c.pup, "connect") ELSE timers
    /\ io' = <<>>
    /\ UNCHANGED <<puppets, nClients, errTasks, errCount, fatal>>
    /\ UNCHANGED notLife

\* The Client emits "error" (the api's poller after registerErrorHandler,
\* or updateContacts on the refresh timer): the handler startClient
\* registered runs to its first await, a sendStatusMessage.
ErrorEvent(c, cause) ==
    /\ c.listening \/ c.interval
    /\ errCount < MaxErrors
    /\ errCount' = errCount + 1
    /\ errTasks' = [errTasks EXCEPT ![c.pup][
                       IF cause = "UnexpectedHttpStatus" THEN "status" ELSE "fatalStatus"]
                       = @ + 1]
    /\ io' = <<"sendStatusMessage">>
    /\ lifeLog' = IF lifeLog.track = "stale" /\ c.own = "cur"
                  THEN [lifeLog EXCEPT !.curErr[c.pup] = TRUE]
                  ELSE lifeLog
    /\ UNCHANGED <<puppets, clients, nClients, timers, fatal>>
    /\ UNCHANGED rest

\* error handler, transient: both status messages have returned (the
\* handler changes nothing between its two sendStatusMessage awaits, they
\* are one stage), stopClient runs and the reconnect is scheduled; or a
\* sendStatusMessage throws and the handler ends there.
ErrTransient(id, ok) ==
    /\ errTasks[id]["status"] > 0
    /\ errTasks' = [errTasks EXCEPT ![id]["status"] = @ - 1]
    /\ clients' = IF ok THEN stopClient(puppets, clients, id) ELSE clients
    /\ timers' = IF ok THEN setTimeout(timers, id, "error") ELSE timers
    /\ io' = <<>>
    /\ UNCHANGED <<puppets, nClients, errCount, fatal>>
    /\ UNCHANGED notLife

\* error handler, fatal: the status message returns and stopClient runs;
\* or it throws and the handler ends.
ErrFatal(id, ok) ==
    /\ errTasks[id]["fatalStatus"] > 0
    /\ errTasks' = [errTasks EXCEPT ![id]["fatalStatus"] = @ - 1]
    /\ clients' = IF ok THEN stopClient(puppets, clients, id) ELSE clients
    /\ fatal' = IF ok THEN [fatal EXCEPT ![id] = TRUE] ELSE fatal
    /\ io' = <<>>
    /\ UNCHANGED <<puppets, nClients, timers, errCount>>
    /\ UNCHANGED notLife

Next ==
    \/ \E id \in PuppetIds, st \in BOOLEAN : newPuppet(id, st)
    \/ \E id \in PuppetIds : DeletePuppet(id)
    \/ \E id \in PuppetIds, o \in TimerOrigins : TimerFire(id, o)
    \/ \E c \in BagToSet(clients), ok \in BOOLEAN : ConnectLogin(c, ok)
    \/ \E c \in BagToSet(clients), ok \in BOOLEAN : ConnectStartup(c, ok)
    \/ \E c \in BagToSet(clients), ok \in BOOLEAN : ConnectSetStatus(c, ok)
    \/ \E c \in BagToSet(clients), ok \in BOOLEAN : SetUserId(c, ok)
    \/ \E c \in BagToSet(clients), ok \in BOOLEAN : SetPuppetData(c, ok)
    \/ \E c \in BagToSet(clients), ok \in BOOLEAN : StatusConnected(c, ok)
    \/ \E c \in BagToSet(clients), ok \in BOOLEAN : StatusFailed(c, ok)
    \/ \E c \in BagToSet(clients), cause \in {"UnexpectedHttpStatus", "Other"} : ErrorEvent(c, cause)
    \/ \E id \in PuppetIds, ok \in BOOLEAN : ErrTransient(id, ok)
    \/ \E id \in PuppetIds, ok \in BOOLEAN : ErrFatal(id, ok)

Spec == Init /\ [][Next]_vars

\* The steps node's event loop takes by itself once they are due: an
\* awaited call of startClient or of the error handler settles (one way or
\* the other), and an armed timer fires.  Registrations, deletions and the
\* poller's errors come from outside and need not happen.
Settles ==
    \/ \E c \in BagToSet(clients), ok \in BOOLEAN : ConnectLogin(c, ok)
    \/ \E c \in BagToSet(clients), ok \in BOOLEAN : ConnectStartup(c, ok)
    \/ \E c \in BagToSet(clients), ok \in BOOLEAN : ConnectSetStatus(c, ok)
    \/ \E c \in BagToSet(clients), ok \in BOOLEAN : SetUserId(c, ok)
    \/ \E c \in BagToSet(clients), ok \in BOOLEAN : SetPuppetData(c, ok)
    \/ \E c \in BagToSet(clients), ok \in BOOLEAN : StatusConnected(c, ok)
    \/ \E c \in BagToSet(clients), ok \in BOOLEAN : StatusFailed(c, ok)
    \/ \E id \in PuppetIds, ok \in BOOLEAN : ErrTransient(id, ok)
    \/ \E id \in PuppetIds, ok \in BOOLEAN : ErrFatal(id, ok)

Fires == \E id \in PuppetIds, o \in TimerOrigins : TimerFire(id, o)

SpecLive == Init /\ [][Next]_vars /\ WF_vars(Settles) /\ WF_vars(Fires)

\* The same, with the place of each failure of connect() recorded.
CatchInit == LifeInit("catch") /\ ConnectIdle /\ CacheInit /\ RelayInit /\ Idle

SpecCatch == CatchInit /\ [][Next]_vars

\* The same, with the history of which Clients emitted "error".
StaleInit == LifeInit("stale") /\ ConnectIdle /\ CacheInit /\ RelayInit /\ Idle

SpecStale == StaleInit /\ [][Next]_vars

\* --------------------------- SpecSession: what a Client object owns
\* The api's "event" listener for a RichText NewMessage: an id in
\* handledIds ends it, else the id is added and the event emitted.
\* A mutation: the id is not added.
dispatchUnrecorded(handled, id) ==
    [handledIds |-> handled, emit |-> id \notin handled]

dispatch(handled, id) ==
    [handledIds |-> handled \cup {id}, emit |-> id \notin handled]

\* The "error" listener of startClient, its status messages sent:
\* stopClient, and for UnexpectedHttpStatus the reconnect timer.
SessionError(a, cause) ==
    [a EXCEPT !.client = disconnect(a.client).client,
              !.timers = IF cause = "UnexpectedHttpStatus" THEN @ + 1 ELSE @]

\* newPuppet for an account not registered: the entry is made and
\* startClient constructs its Client and calls connect().
SessionNewPuppet ==
    /\ ~acct.reg
    /\ acct.made < MaxClients
    /\ acct' = [acct EXCEPT !.reg = TRUE, !.client = SessionClient("login"),
                            !.made = @ + 1]
    /\ UNCHANGED notSession

\* connect() returns: startupApi has stored the contacts the server lists
\* (listed: the one contact is among them), armed the refresh timer and
\* the poller runs.  Or connect() throws and the catch block of
\* startClient schedules the retry.
SessionConnect(ok, listed) ==
    /\ acct.client.pc = "login"
    /\ acct' = IF ok
               THEN [acct EXCEPT !.client.api = TRUE, !.client.listening = TRUE,
                                 !.client.interval = TRUE, !.client.pc = "done",
                                 !.client.contact = IF listed THEN "object" ELSE @]
               ELSE [acct EXCEPT !.client.pc = "done", !.timers = @ + 1]
    /\ UNCHANGED notSession

\* The poller delivers a RichText NewMessage with the id.
SessionEvent(id) ==
    /\ acct.client.listening
    /\ LET d == dispatch(acct.client.handledIds, id)
       IN /\ d.emit => acct.log.emits[id] < MaxEmits
          /\ acct' = [acct EXCEPT
                 !.client.handledIds = d.handledIds,
                 !.pending = IF d.emit THEN @ \cup {id} ELSE @,
                 !.log.emits[id] = IF d.emit THEN @ + 1 ELSE @]
    /\ UNCHANGED notSession

\* The handler of the event with the id, suspended since its emit on
\* getSendParams, reaches dedupe(), which suppresses it (hit) or not, and
\* ends with the home operations of handleSkypeText.
SessionDedupe(id, hit) ==
    /\ id \in acct.pending
    /\ acct' = [acct EXCEPT !.pending = @ \ {id},
                            !.log.echo = IF hit THEN @ \cup {id} ELSE @ \ {id},
                            !.log.late = @ \/ (~acct.reg /\ handleSkypeText(hit) # <<>>)]
    /\ UNCHANGED notSession

\* ID_TIMEOUT has passed since the id was added to a handledIds.
SessionExpire(id) ==
    /\ acct.log.emits[id] > 0
    /\ acct' = [acct EXCEPT !.client.handledIds = @ \ {id},
                            !.log.emits[id] = 0,
                            !.log.echo = @ \ {id}]
    /\ UNCHANGED notSession

\* getContact misses the cache and the lookup returns the contact, or throws.
SessionLookup(found) ==
    /\ acct.client.api
    /\ acct.client.contact = "none"
    /\ acct' = [acct EXCEPT !.client.contact = IF found THEN "object" ELSE "null"]
    /\ UNCHANGED notSession

\* The refresh timer fires: updateContacts stores the contacts of the diff
\* (listed: the one contact is among them), or getContacts throws, "error"
\* is emitted and the listener of startClient runs.
SessionRefresh(ok, listed, cause) ==
    /\ acct.client.interval
    /\ acct' = IF ok
               THEN [acct EXCEPT !.client.contact = IF listed THEN "object" ELSE @]
               ELSE [SessionError(acct, cause) EXCEPT !.log.refreshFailed = TRUE]
    /\ UNCHANGED notSession

\* The poller emits "error" and the listener of startClient runs.
SessionPollError(cause) ==
    /\ acct.client.listening
    /\ acct' = SessionError(acct, cause)
    /\ UNCHANGED notSession

\* A reconnect timer fires: startClient constructs a new Client for a
\* registered account and calls connect().
SessionTimer ==
    /\ acct.timers > 0
    /\ acct.reg => acct.made < MaxClients
    /\ acct' = IF acct.reg
               THEN [acct EXCEPT !.timers = @ - 1, !.client = SessionClient("login"),
                                 !.made = @ + 1, !.log.refreshFailed = FALSE]
               ELSE [acct EXCEPT !.timers = @ - 1]
    /\ UNCHANGED notSession

\* deletePuppet: the Client is disconnected and the entry dropped.
SessionDelete ==
    /\ acct.reg
    /\ acct' = [acct EXCEPT !.reg = FALSE, !.client = SessionClient("none"),
                            !.log.refreshFailed = FALSE]
    /\ UNCHANGED notSession

NextSession ==
    \/ SessionNewPuppet
    \/ \E ok \in BOOLEAN, listed \in BOOLEAN : SessionConnect(ok, listed)
    \/ \E id \in EventIds : SessionEvent(id)
    \/ \E id \in EventIds, hit \in BOOLEAN : SessionDedupe(id, hit)
    \/ \E id \in EventIds : SessionExpire(id)
    \/ \E found \in BOOLEAN : SessionLookup(found)
    \/ \E ok \in BOOLEAN, listed \in BOOLEAN, cause \in {"UnexpectedHttpStatus", "Other"} :
          SessionRefresh(ok, listed, cause)
    \/ \E cause \in {"UnexpectedHttpStatus", "Other"} : SessionPollError(cause)
    \/ SessionTimer
    \/ SessionDelete

SpecSession == Init /\ [][NextSession]_vars

\* ------------------------------------------- SpecConnect: Client.connect
\* skypeHttp.connect({credentials}) returned: this.api is a new api object,
\* not listening and without handlers, and connectedWithAuth = false.
\* A mutation: connectedWithAuth is left as it was.
credentialLoginKeepsAuth(c) ==
    [c EXCEPT !.api = TRUE, !.from = "credentials",
              !.listening = FALSE, !.handler = FALSE]

credentialLogin(c) ==
    [c EXCEPT !.api = TRUE, !.from = "credentials", !.connectedWithAuth = FALSE,
              !.listening = FALSE, !.handler = FALSE]

\* connect()'s catch around the first startupApi: where the call goes on.
\* A mutation: the error is rethrown whatever login was used.
startupApiThrewNoFallback(c) == "failed"

startupApiThrew(c) == IF ~c.connectedWithAuth THEN "failed" ELSE "fallbackLogin"

\* connect() after a startupApi that returned: with a reused session the
\* grace period starts (timer, once("error") listener, listen()); else
\* registerErrorHandler, listen() and the call of setStatus.
afterStartupApi(c) ==
    IF c.connectedWithAuth
    THEN [c EXCEPT !.interval = TRUE, !.graceTimer = TRUE, !.once = TRUE,
                   !.listening = TRUE, !.pc = "grace"]
    ELSE [c EXCEPT !.interval = TRUE, !.handler = TRUE, !.listening = TRUE,
                   !.pc = "setStatus"]

ConnectInit ==
    /\ LifeInit("calls")
    /\ CacheInit
    /\ RelayInit
    /\ Idle
    /\ \E st \in BOOLEAN : client = ConstructClient(st)
    /\ connLog = NoLog

\* connect() is called: a session login when there is a blob, else a
\* credential login.
Connect ==
    /\ client.pc = "new"
    /\ client' = [client EXCEPT !.pc = IF client.state THEN "sessionLogin"
                                       ELSE "credentialLogin"]
    /\ connLog' = [connLog EXCEPT
                      !.sessLogins = IF client.state THEN @ + 1 ELSE @,
                      !.credLogins = IF client.state THEN @ ELSE @ + 1,
                      !.last = "connect", !.error = FALSE]
    /\ UNCHANGED notConnect

\* skypeHttp.connect({state}) returns, and startupApi is called; or it
\* throws and the credential login is called.
SessionLogin(ok) ==
    /\ client.pc = "sessionLogin"
    /\ client' = IF ok
                 THEN [client EXCEPT !.api = TRUE, !.from = "session",
                                     !.connectedWithAuth = TRUE, !.pc = "startupApi"]
                 ELSE [client EXCEPT !.pc = "credentialLogin"]
    /\ connLog' = [connLog EXCEPT
                      !.failed = IF ok THEN @ ELSE @ \cup {"sessionLogin"},
                      !.credLogins = IF ok THEN @ ELSE @ + 1,
                      !.last = "sessionLogin", !.error = FALSE]
    /\ UNCHANGED notConnect

AfterLogin(pc) ==
    CASE pc = "credentialLogin" -> "startupApi"
      [] pc = "fallbackLogin" -> "startupApi2"
      [] pc = "retryLogin" -> "retryStartup"

\* skypeHttp.connect({credentials}) returns, and startupApi is called; or
\* it throws, out of connect() (from the grace period through reject).
CredentialLogin(ok) ==
    /\ client.pc \in {"credentialLogin", "fallbackLogin", "retryLogin"}
    /\ client' = IF ok
                 THEN [credentialLogin(client) EXCEPT !.pc = AfterLogin(client.pc)]
                 ELSE [client EXCEPT !.pc = "failed"]
    /\ connLog' = [connLog EXCEPT
                      !.failed = IF ok THEN @ ELSE @ \cup {"credentialLogin"},
                      !.last = "credentialLogin", !.error = FALSE]
    /\ UNCHANGED notConnect

\* startupApi returns (contacts and conversations loaded, refresh timer
\* armed) and connect() goes on to its next await; or it throws: after a
\* session login the credential login is called, else the error leaves
\* connect().
StartupApi(ok) ==
    /\ client.pc \in {"startupApi", "startupApi2", "retryStartup"}
    /\ LET next == IF client.pc = "startupApi" THEN startupApiThrew(client)
                   ELSE "failed"
       IN /\ client' =
               IF ~ok THEN [client EXCEPT !.pc = next]
               ELSE IF client.pc = "retryStartup"
                    THEN [client EXCEPT !.interval = TRUE, !.handler = TRUE,
                                        !.pc = "setStatus"]
                    ELSE afterStartupApi(client)
          /\ connLog' = [connLog EXCEPT
                            !.failed = IF ok THEN @
                                       ELSE @ \cup {IF client.from = "session"
                                                    THEN "validation" ELSE "startupApi"},
                            !.credLogins = IF ~ok /\ next = "fallbackLogin"
                                           THEN @ + 1 ELSE @,
                            !.last = "startupApi", !.error = FALSE]
    /\ UNCHANGED notConnect

\* The TIMEOUT_SUCCESS timer of the grace period fires: nothing when
\* resolved is set, else registerErrorHandler, resolve and the call of
\* setStatus.
GraceTimeout ==
    /\ client.graceTimer
    /\ client' = IF client.resolved
                 THEN [client EXCEPT !.graceTimer = FALSE]
                 ELSE [client EXCEPT !.graceTimer = FALSE, !.resolved = TRUE,
                                     !.handler = TRUE, !.pc = "setStatus"]
    /\ connLog' = [connLog EXCEPT !.last = "graceTimeout", !.error = FALSE]
    /\ UNCHANGED notConnect

\* The poller of the reused session emits "error" and the once listener
\* runs: nothing when resolved is set, else stopListening and the call of
\* the credential login.
GraceError ==
    /\ client.once /\ client.listening
    /\ client' = IF client.resolved
                 THEN [client EXCEPT !.once = FALSE]
                 ELSE [client EXCEPT !.once = FALSE, !.resolved = TRUE,
                                     !.listening = FALSE, !.pc = "retryLogin"]
    /\ connLog' = [connLog EXCEPT
                      !.failed = IF client.resolved THEN @ ELSE @ \cup {"validation"},
                      !.credLogins = IF client.resolved THEN @ ELSE @ + 1,
                      !.last = "graceError", !.error = FALSE]
    /\ UNCHANGED notConnect

\* api.setStatus("Online") returns and connect() with it, or throws.
SetStatus(ok) ==
    /\ client.pc = "setStatus"
    /\ client' = [client EXCEPT !.pc = IF ok THEN "returned" ELSE "failed"]
    /\ connLog' = [connLog EXCEPT
                      !.failed = IF ok THEN @ ELSE @ \cup {"setStatus"},
                      !.last = "setStatus", !.error = FALSE]
    /\ UNCHANGED notConnect

\* disconnect() is called, wherever connect() stands.
Disconnect ==
    /\ connLog.disconnects < MaxDisconnects
    /\ LET r == disconnect(client)
       IN /\ client' = r.client
          /\ connLog' = [connLog EXCEPT
                            !.disconnects = @ + 1,
                            !.stopped = @ \/ client.listening \/ client.interval,
                            !.last = "disconnect", !.error = r.error]
    /\ UNCHANGED notConnect

NextConnect ==
    \/ Connect
    \/ \E ok \in BOOLEAN : SessionLogin(ok)
    \/ \E ok \in BOOLEAN : CredentialLogin(ok)
    \/ \E ok \in BOOLEAN : StartupApi(ok)
    \/ GraceTimeout
    \/ GraceError
    \/ \E ok \in BOOLEAN : SetStatus(ok)
    \/ Disconnect

SpecConnect == ConnectInit /\ [][NextConnect]_vars

\* ------------------------------------------------ SpecCache: the caches
Call(op, kind, key, hit, map) ==
    [op |-> op, key |-> key,
     ret |-> IF hit THEN Get(map, key) ELSE "pending",
     lookup |-> ~hit,
     afterFail |-> <<kind, key>> \in cacheLog.failed]

\* cacheLog.stored after entries were stored under the keys K: the keys
\* whose failed lookup has been followed by a store.
Stored(K) == cacheLog.stored \cup (K \cap cacheLog.failed)

\* getContact(id): the entry of the full id when the map has the key, else
\* api.getContact is called.
GetContact(id) ==
    LET f == FullId(id)
        hit == contacts[f] # "none"
    IN /\ hit \/ BagCardinality(lookups) < MaxLookups
       /\ lookups' = IF hit THEN lookups
                     ELSE lookups (+) SetToBag({[kind |-> "contact", key |-> f]})
       /\ cacheLog' = [cacheLog EXCEPT
                          !.last = Call("getContact", "contact", f, hit, contacts)]
       /\ UNCHANGED <<contacts, conversations>>
       /\ UNCHANGED notCache

\* api.getContact returns a contact, stored under its mri; or throws, and
\* null is stored under the full id asked for.
ContactReply(l, ok, mri) ==
    /\ l.kind = "contact"
    /\ lookups' = lookups (-) SetToBag({l})
    /\ contacts' = IF ok THEN [contacts EXCEPT ![mri] = "object"]
                   ELSE lookupFailed(contacts, l.key)
    /\ cacheLog' = [cacheLog EXCEPT
                       !.failed = IF ok THEN @ ELSE @ \cup {<<"contact", l.key>>},
                       !.stored = IF ok THEN Stored({<<"contact", mri>>})
                                  ELSE @ \ {<<"contact", l.key>>},
                       !.last = NoCall("contactReply")]
    /\ UNCHANGED conversations
    /\ UNCHANGED notCache

\* getConversation(room): null at once when the dm- prefix names another
\* puppet; else the entry of the conversation id when the map has the key,
\* else api.getConversation is called.
\* A mutation: the puppet id in the prefix is not compared.
otherPuppetIgnored(room) == FALSE

\* id.match(/^dm-\d+-/) and Number(puppetId) !== room.puppetId: dm is the
\* number in the prefix of the room id, 0 for a room id without the prefix.
otherPuppet(room) == room.dm # 0 /\ room.dm # room.puppetId

\* Skype.getRoomParams for the conversation with the id: the room type is
\* the number before the colon, a direct conversation (ROOM_TYPE_DM = 8)
\* gets the room id dm-<puppetId>-<id>, any other the id itself.
\* A mutation: the prefix names another account.
getRoomParamsOtherPrefix(puppetId, id) ==
    [puppetId |-> puppetId,
     dm |-> IF (IF id = "8:alice" THEN 8 ELSE 19) = 8 THEN puppetId + 1 ELSE 0,
     conv |-> id]

getRoomParams(puppetId, id) ==
    [puppetId |-> puppetId,
     dm |-> IF (IF id = "8:alice" THEN 8 ELSE 19) = 8 THEN puppetId ELSE 0,
     conv |-> id]

\* room.roomId as the handlers put it into the dedup key: the prefix (0 for
\* none) and what follows it.
RoomId(room) == <<room.dm, room.conv>>

GetConversation(room) ==
    LET mismatch == otherPuppet(room)
        hit == mismatch \/ conversations[room.conv] # "none"
    IN /\ hit \/ BagCardinality(lookups) < MaxLookups
       /\ lookups' = IF hit THEN lookups
                     ELSE lookups (+) SetToBag({[kind |-> "conversation",
                                                 key |-> room.conv]})
       /\ cacheLog' = [cacheLog EXCEPT !.last =
              IF mismatch
              THEN [Call("getConversation", "conversation", room.conv, TRUE,
                         conversations) EXCEPT !.ret = "null"]
              ELSE Call("getConversation", "conversation", room.conv, hit,
                        conversations)]
       /\ UNCHANGED <<contacts, conversations>>
       /\ UNCHANGED notCache

\* api.getConversation returns a conversation, stored under its id; or
\* throws, and null is stored under the id asked for.
ConversationReply(l, ok, cid) ==
    /\ l.kind = "conversation"
    /\ lookups' = lookups (-) SetToBag({l})
    /\ conversations' = IF ok THEN [conversations EXCEPT ![cid] = "object"]
                        ELSE lookupFailed(conversations, l.key)
    /\ cacheLog' = [cacheLog EXCEPT
                       !.failed = IF ok THEN @ ELSE @ \cup {<<"conversation", l.key>>},
                       !.stored = IF ok THEN Stored({<<"conversation", cid>>})
                                  ELSE @ \ {<<"conversation", l.key>>},
                       !.last = NoCall("conversationReply")]
    /\ UNCHANGED contacts
    /\ UNCHANGED notCache

StoreAll(map, S) == [k \in DOMAIN map |-> IF k \in S THEN "object" ELSE map[k]]

\* updateContacts on the refresh timer: api.getContacts(true) returns the
\* changed contacts, each stored under its mri; or throws ("error" emitted).
UpdateContacts(ok, S) ==
    /\ contacts' = IF ok THEN StoreAll(contacts, S) ELSE contacts
    /\ cacheLog' = [cacheLog EXCEPT
                       !.stored = IF ok THEN Stored({<<"contact", k>> : k \in S}) ELSE @,
                       !.last = NoCall("updateContacts")]
    /\ UNCHANGED <<conversations, lookups>>
    /\ UNCHANGED notCache

\* connect() calls startupApi, at most twice on one Client.
StartupApiCall ==
    /\ cacheLog.startup = "idle" /\ cacheLog.startups < 2
    /\ cacheLog' = [cacheLog EXCEPT !.startup = "getContacts", !.startups = @ + 1,
                                    !.last = NoCall("startupApi")]
    /\ UNCHANGED <<contacts, conversations, lookups>>
    /\ UNCHANGED notCache

\* startupApi: api.getContacts returns the contact list, or throws.
StartupContacts(ok, S) ==
    /\ cacheLog.startup = "getContacts"
    /\ contacts' = IF ok THEN StoreAll(contacts, S) ELSE contacts
    /\ cacheLog' = [cacheLog EXCEPT
                       !.startup = IF ok THEN "getConversations" ELSE "idle",
                       !.stored = IF ok THEN Stored({<<"contact", k>> : k \in S}) ELSE @,
                       !.last = NoCall("startupContacts")]
    /\ UNCHANGED <<conversations, lookups>>
    /\ UNCHANGED notCache

\* startupApi: api.getConversations returns the conversation list, or throws.
StartupConversations(ok, S) ==
    /\ cacheLog.startup = "getConversations"
    /\ conversations' = IF ok THEN StoreAll(conversations, S) ELSE conversations
    /\ cacheLog' = [cacheLog EXCEPT
                       !.startup = "idle",
                       !.stored = IF ok THEN Stored({<<"conversation", k>> : k \in S})
                                  ELSE @,
                       !.last = NoCall("startupConversations")]
    /\ UNCHANGED <<contacts, lookups>>
    /\ UNCHANGED notCache

NextCache ==
    \/ \E id \in FullIds \cup {"alice"} : GetContact(id)
    \/ \E l \in BagToSet(lookups), ok \in BOOLEAN, mri \in FullIds :
          ContactReply(l, ok, mri)
    \/ \E room \in [puppetId : {1}, dm : {0, 1, 2}, conv : ConvIds] :
          GetConversation(room)
    \/ \E l \in BagToSet(lookups), ok \in BOOLEAN, cid \in ConvIds :
          ConversationReply(l, ok, cid)
    \/ \E ok \in BOOLEAN, S \in SUBSET FullIds : UpdateContacts(ok, S)
    \/ StartupApiCall
    \/ \E ok \in BOOLEAN, S \in SUBSET FullIds : StartupContacts(ok, S)
    \/ \E ok \in BOOLEAN, S \in SUBSET ConvIds : StartupConversations(ok, S)

SpecCache == Init /\ [][NextCache]_vars

\* The conversation cache alone: getConversation and the replies to its
\* lookups.
NextRoom ==
    \/ \E room \in [puppetId : {1}, dm : {0, 1, 2}, conv : ConvIds] :
          GetConversation(room)
    \/ \E l \in BagToSet(lookups), ok \in BOOLEAN, cid \in ConvIds :
          ConversationReply(l, ok, cid)

SpecRoom == Init /\ [][NextRoom]_vars

\* ------------------------------------------------- SpecRelay: the relay
\* The remote events that can arrive: a text event with the server id of a
\* home message is that message's echo; any other event has any content.
\* Under "drop" they are events sent elsewhere: text and edits of both
\* senders, a file, a typing notice and the two URIObject texts.
Events ==
    IF relayLog.track = "drop"
    THEN [kind : {"text", "edit"}, id : ForeignIds,
          sender : {"own", "other"}, content : {"hello"}]
         \cup [kind : {"file", "typing"}, id : ForeignIds, sender : {"other"},
               content : {"hello"}]
         \cup [kind : {"text"}, id : ForeignIds, sender : {"other"},
               content : URIObjects]
    ELSE
    {ev \in [kind : {"text", "edit"}, id : (1..MaxSends) \cup ForeignIds,
             sender : {"own", "other"}, content : Contents \cup {"bye"}] :
        /\ ev.id \in 1..MaxSends => ev.id <= Len(relayLog.sent)
        /\ (ev.kind = "text" /\ ev.id \in 1..MaxSends) =>
              ev.sender = "own" /\ ev.content = relayLog.sent[ev.id]}

\* Whether ev is checked against the sender and content of the first send.
SameAsFirst(ev) ==
    /\ Len(relayLog.sent) >= 1
    /\ ev.sender = "own" /\ ev.content = relayLog.sent[1]

Last(decisions) == IF relayLog.track = "echo" THEN relayLog.last ELSE decisions

\* The handler op returned at its check of the account, contact and room.
Dropped(op) ==
    IF relayLog.track = "drop"
    THEN <<[dropped |-> op, out |-> <<>>, content |-> "", key |-> ""]>>
    ELSE Last(<<>>)

Dirty(w) == IF w = "none" THEN w ELSE "dirty"

Flight(x, old) == IF relayLog.track = "flight" THEN x ELSE old

\* Whether a message send with the sender and content of ev awaits its result.
InFlight(ev) ==
    /\ ev.sender = "own"
    /\ \E s \in BagToSet(sends) :
          s.kind = "message" /\ relayLog.sent[s.id] = ev.content

\* The event ev as its handler holds it, waited saying whether dedupe() waits.
Arrived(ev, waited) ==
    [kind |-> ev.kind, id |-> ev.id, sender |-> ev.sender, content |-> ev.content,
     echo |-> Flight(InFlight(ev), FALSE), waited |-> waited]

Expired(mark) == [c \in Contents |-> IF mark[c] = "none" THEN "none" ELSE "expired"]

\* handleSkypeText / handleSkypeEdit from dedupe() on, for event ev in the
\* state st = [dedup, watch, hist, decisions, mark, owed].
Decide(ev, st) ==
    LET file == ev.kind = "text" /\ isFile(ev.content)
        key == IF file THEN "file:f" ELSE ev.content
        r == dedupe(st.dedup, ev.sender, ev.id, key)
        out == IF file THEN handleSkypeFile(r.hit)
               ELSE IF ev.kind = "text" THEN handleSkypeText(r.hit)
               ELSE IF ev.kind = "file" THEN handleSkypeFile(r.hit)
               ELSE handleSkypeEdit(r.hit, ev.content, ev.id, deletedMessages)
        same == SameAsFirst(ev)
        locked == ev.sender = "own" /\ ev.content \in Contents
        due == ev.sender = "own" /\ ev.id \in st.owed
    IN [dedup |-> r.dedup,
        mark |-> IF locked /\ st.mark[ev.content] = "fresh"
                 THEN [st.mark EXCEPT ![ev.content] = "used"] ELSE st.mark,
        owed |-> IF ev.sender = "own" THEN st.owed \ {ev.id} ELSE st.owed,
        watch |-> IF same /\ (st.watch = "locked" \/ ev.kind = "edit")
                  THEN Dirty(st.watch) ELSE st.watch,
        hist |-> IF same /\ st.watch = "done" /\ ev.kind = "text" /\ Len(st.hist) < 2
                 THEN Append(st.hist, [id |-> ev.id, relayed |-> out # <<>>])
                 ELSE st.hist,
        decisions |-> IF relayLog.track = "flight" /\ ~ev.echo /\ ~due
                      THEN st.decisions
                      ELSE IF relayLog.track = "drop"
                      THEN Append(st.decisions,
                                  [kind |-> ev.kind, out |-> out,
                                   content |-> ev.content, key |-> key])
                      ELSE Append(st.decisions,
                             [kind |-> ev.kind, empty |-> ev.content = "",
                              redacted |-> ev.id \in relayLog.redacted,
                              hit |-> r.hit, out |-> out,
                              echo |-> ev.echo, waited |-> ev.waited,
                              mark |-> IF locked THEN st.mark[ev.content] ELSE "none",
                              owed |-> due])]

\* The lock's promise resolves: the suspended handlers go on in arrival order.
RECURSIVE Drain(_, _)
Drain(ws, st) == IF ws = <<>> THEN st ELSE Drain(Tail(ws), Decide(Head(ws), st))

Start(d, w, owed) ==
    [dedup |-> d, watch |-> w, hist |-> relayLog.hist, decisions |-> <<>>,
     mark |-> relayLog.mark, owed |-> owed]

\* The relay state after a step that ends in state st of the handlers.
Commit(st, log) ==
    /\ dedup' = st.dedup
    /\ relayLog' = [log EXCEPT !.watch = st.watch, !.hist = st.hist,
                               !.last = Last(st.decisions),
                               !.mark = st.mark, !.owed = st.owed]

\* handleMatrixMessage: messageDeduplicator.lock(dedupeKey, username, msg)
\* before the send is called.
\* A mutation: the send is called without lock.
lockBeforeSendSkipped(d, msg) == d

lockBeforeSend(d, msg) == lock(d, "own", msg)

\* handleMatrixMessage up to its await on sendMessage: the conversation is
\* found (else the handler returns), the content is locked and sent.
\* handleMatrixFile does the same with the content file:<name>.
MatrixMessage(p, conv, c) ==
    /\ roomFound(p, conv) => relayLog.nSends < MaxSends
    /\ IF ~roomFound(p, conv)
       THEN /\ relayLog' = [relayLog EXCEPT !.last = Dropped("message")]
            /\ UNCHANGED <<dedup, sends>>
       ELSE /\ dedup' = lockBeforeSend(dedup, c)
            /\ sends' = sends (+) SetToBag({[kind |-> "message",
                                             id |-> Len(relayLog.sent) + 1]})
            /\ relayLog' = [relayLog EXCEPT
                   !.nSends = @ + 1,
                   !.sent = Append(@, c),
                   !.watch = IF relayLog.sent = <<>> /\ relayLog.track = "echo"
                             THEN "locked"
                             ELSE IF SameAsFirst([sender |-> "own", content |-> c])
                             THEN Dirty(@) ELSE @,
                   !.mark = Flight([@ EXCEPT ![c] = "fresh"], @),
                   !.last = Last(<<>>)]
    /\ UNCHANGED <<deletedMessages, waiting>>
    /\ UNCHANGED notRelay

\* handleMatrixMessage after sendMessage: unlock with the MessageId of the
\* result, or without when the result has none; or sendMessage threw and
\* the handler ends without unlock.
MessageSendReturns(s, res) ==
    /\ s.kind = "message"
    /\ sends' = sends (-) SetToBag({s})
    /\ LET w == IF s.id # 1 THEN relayLog.watch
                ELSE IF res = "throw" \/ relayLog.watch # "locked"
                     THEN Dirty(relayLog.watch) ELSE "done"
       IN IF res = "throw"
          THEN /\ relayLog' = [relayLog EXCEPT !.watch = w,
                                               !.last = Last(<<>>)]
               /\ UNCHANGED <<dedup, waiting>>
          ELSE /\ Commit(Drain(waiting,
                               Start(unlock(dedup, "own",
                                            IF res = "id" THEN s.id ELSE 0), w,
                                     IF res = "id"
                                     THEN Flight(relayLog.owed \cup {s.id}, {})
                                     ELSE relayLog.owed)),
                         [relayLog EXCEPT
                             !.synced = IF res = "id" /\ relayLog.track = "drop"
                                        THEN @ \cup {s.id} ELSE @])
               /\ waiting' = <<>>
    /\ UNCHANGED deletedMessages
    /\ UNCHANGED notRelay

\* handleMatrixEdit of the item with the remote id id, up to its await on
\* sendEdit.
MatrixEdit(p, conv, id, c) ==
    /\ roomFound(p, conv) => relayLog.nSends < MaxSends
    /\ IF ~roomFound(p, conv)
       THEN /\ relayLog' = [relayLog EXCEPT !.last = Dropped("edit")]
            /\ UNCHANGED <<dedup, sends>>
       ELSE /\ dedup' = lock(dedup, "own", c)
            /\ sends' = sends (+) SetToBag({[kind |-> "edit", id |-> id]})
            /\ relayLog' = [relayLog EXCEPT
                   !.nSends = @ + 1,
                   !.mark = Flight([@ EXCEPT ![c] = "fresh"], @),
                   !.watch = IF SameAsFirst([sender |-> "own", content |-> c])
                             THEN Dirty(@) ELSE @,
                   !.last = Last(<<>>)]
    /\ UNCHANGED <<deletedMessages, waiting>>
    /\ UNCHANGED notRelay

\* handleMatrixEdit after sendEdit: unlock with the empty event id; or
\* sendEdit threw and the handler ends without unlock.
EditSendReturns(s, ok) ==
    /\ s.kind = "edit"
    /\ sends' = sends (-) SetToBag({s})
    /\ IF ok
       THEN /\ Commit(Drain(waiting, Start(unlock(dedup, "own", 0), relayLog.watch,
                                           Flight(relayLog.owed \cup {s.id}, {}))),
                      relayLog)
            /\ waiting' = <<>>
       ELSE /\ relayLog' = [relayLog EXCEPT !.last = Last(<<>>)]
            /\ UNCHANGED <<dedup, waiting>>
    /\ UNCHANGED deletedMessages
    /\ UNCHANGED notRelay

\* handleMatrixRedact: p.deletedMessages.add(eventId), before sendDelete.
\* A mutation: sendDelete is called and the id not recorded.
handleMatrixRedactUnrecorded(deleted, id) == deleted

handleMatrixRedact(deleted, id) == deleted \cup {id}

\* handleMatrixRedact: the conversation is found (else the handler
\* returns), the id is recorded and sendDelete is called.
MatrixRedact(p, conv, id) ==
    /\ IF ~roomFound(p, conv)
       THEN /\ relayLog' = [relayLog EXCEPT !.last = Dropped("redact")]
            /\ UNCHANGED deletedMessages
       ELSE /\ deletedMessages' = handleMatrixRedact(deletedMessages, id)
            /\ relayLog' = [relayLog EXCEPT !.redacted = @ \cup {id},
                                            !.last = Last(<<>>)]
    /\ UNCHANGED <<dedup, sends, waiting>>
    /\ UNCHANGED notRelay

\* The lock's timeout releases a lock that no unlock released.
LockTimeout ==
    /\ dedup.locked
    /\ Commit(Drain(waiting, Start([dedup EXCEPT !.locked = FALSE],
                                   Dirty(relayLog.watch), relayLog.owed)),
              relayLog)
    /\ waiting' = <<>>
    /\ UNCHANGED <<deletedMessages, sends>>
    /\ UNCHANGED notRelay

\* The Client emits a remote event; contact and conversation say whether
\* getContact and getConversation return one.  With both, the handler of a
\* typing event calls setUserTyping, the others call dedupe(), which waits
\* when the room is locked; else the handler returns.
Inbound(ev, contact, conversation) ==
    /\ IF ~getSendParams(contact, conversation)
       THEN /\ relayLog' = [relayLog EXCEPT !.last = Dropped(ev.kind)]
            /\ UNCHANGED <<dedup, waiting>>
       ELSE IF ev.kind = "typing"
       THEN /\ relayLog' = [relayLog EXCEPT
                   !.last = Last(<<[kind |-> "typing", out |-> <<"setUserTyping">>,
                                    content |-> "", key |-> ""]>>)]
            /\ UNCHANGED <<dedup, waiting>>
       ELSE IF dedupeWaits(dedup, ev.sender)
       THEN /\ Len(waiting) < MaxWaiting
            /\ waiting' = Append(waiting, Arrived(ev, TRUE))
            /\ relayLog' = [relayLog EXCEPT !.last = Last(<<>>)]
            /\ UNCHANGED dedup
       ELSE /\ Commit(Decide(Arrived(ev, FALSE),
                             Start(dedup, relayLog.watch, relayLog.owed)), relayLog)
            /\ UNCHANGED waiting
    /\ UNCHANGED <<deletedMessages, sends>>
    /\ UNCHANGED notRelay

\* An entry of an expiring set reaches its timeout.
ExpireData(k) ==
    /\ dedup' = [dedup EXCEPT !.data = @ \ {k}]
    /\ relayLog' = [relayLog EXCEPT !.watch = Dirty(@), !.last = Last(<<>>),
                                    !.mark = Expired(@), !.owed = {}]
    /\ UNCHANGED <<deletedMessages, sends, waiting>>
    /\ UNCHANGED notRelay

ExpireAuthor(a) ==
    /\ dedup' = [dedup EXCEPT !.authorIds = @ \ {a}]
    /\ relayLog' = [relayLog EXCEPT !.watch = Dirty(@), !.last = Last(<<>>),
                                    !.mark = Expired(@), !.owed = {}]
    /\ UNCHANGED <<deletedMessages, sends, waiting>>
    /\ UNCHANGED notRelay

ExpireDeleted(id) ==
    /\ deletedMessages' = deletedMessages \ {id}
    /\ relayLog' = [relayLog EXCEPT !.redacted = @ \ {id},
                                    !.last = Last(<<>>)]
    /\ UNCHANGED <<dedup, sends, waiting>>
    /\ UNCHANGED notRelay

\* Whether the account of a home event is registered; the histories other
\* than "drop" tell no difference between an account and a room not found.
Registered == IF relayLog.track = "drop" THEN BOOLEAN ELSE {TRUE}

\* The remote events whose contact or conversation does not resolve; the
\* histories other than "drop" tell no difference between them.
Unresolved ==
    IF relayLog.track = "drop"
    THEN {u \in [ev : Events, contact : BOOLEAN, conversation : BOOLEAN] :
             ~(u.contact /\ u.conversation)}
    ELSE {[ev |-> [kind |-> "text", id |-> 101, sender |-> "other", content |-> "bye"],
           contact |-> FALSE, conversation |-> FALSE]}

NextRelay ==
    \/ \E p \in Registered, conv \in BOOLEAN, c \in Contents : MatrixMessage(p, conv, c)
    \/ \E s \in BagToSet(sends), res \in {"id", "noId", "throw"} : MessageSendReturns(s, res)
    \/ \E p \in Registered, conv \in BOOLEAN, id \in ForeignIds, c \in Contents :
          MatrixEdit(p, conv, id, c)
    \/ \E s \in BagToSet(sends), ok \in BOOLEAN : EditSendReturns(s, ok)
    \/ \E p \in Registered, conv \in BOOLEAN, id \in ForeignIds : MatrixRedact(p, conv, id)
    \/ LockTimeout
    \/ \E ev \in Events : Inbound(ev, TRUE, TRUE)
    \/ \E u \in Unresolved : Inbound(u.ev, u.contact, u.conversation)
    \/ \E k \in dedup.data : ExpireData(k)
    \/ \E a \in dedup.authorIds : ExpireAuthor(a)
    \/ \E id \in deletedMessages : ExpireDeleted(id)

SpecRelay == Init /\ [][NextRelay]_vars

EditInit ==
    /\ LifeInit("calls") /\ ConnectIdle /\ CacheInit /\ Idle
    /\ RelayState /\ relayLog = NoRelayLog("steps")

SpecEdit == EditInit /\ [][NextRelay]_vars

FlightInit ==
    /\ LifeInit("calls") /\ ConnectIdle /\ CacheInit /\ Idle
    /\ RelayState /\ relayLog = NoRelayLog("flight")

SpecFlight == FlightInit /\ [][NextRelay]_vars

DropInit ==
    /\ LifeInit("calls") /\ ConnectIdle /\ CacheInit /\ Idle
    /\ RelayState /\ relayLog = NoRelayLog("drop")

SpecDrop == DropInit /\ [][NextRelay]_vars

\* ----------------------------------------- SpecInbound: remote events
\* The listener startClient registers for a remote event: the handler runs
\* inside try/catch, an error is logged.  The result is the session after
\* the handler ended, threw says whether it ended with an exception.
\* A mutation: no try/catch, the rejection of the listener's promise is
\* unhandled and ends the process.
onEventNoCatch(sess, threw) == IF threw THEN "crashed" ELSE sess

onEvent(sess, threw) == sess

\* handleSkypeText from the answer of getSendParams on: returns when the
\* contact or the conversation is null; else dedupe(), and on a miss the
\* home operation is called and awaited.
AfterParams(h, contact, conversation) ==
    IF contact = "null" \/ conversation = "null" THEN <<>>
    ELSE handleSkypeText(dedupe(dedup, h.from, h.n, "hello").hit)

\* The history after the handler of event n went on from getSendParams
\* with the home operations out; new says whether n was emitted just now.
Logged(n, out, new) ==
    [inLog EXCEPT !.nEvents = IF new THEN n ELSE @,
                  !.ops = IF out = <<>> THEN @ ELSE Append(@, n),
                  !.pending = IF out = <<>> THEN @ ELSE @ + 1,
                  !.afterThrow = @ \/ (out # <<>> /\ inLog.threw)]

\* The handler h with the answer of getConversation.
AfterConversation(h, conversation) ==
    /\ handlers' = handlers \ {h}
    /\ inLog' = Logged(h.n, AfterParams(h, h.contact, conversation), h.pc = "new")

\* The handler h with the answer of getContact: getSendParams goes on to
\* getConversation, answered from the cache or by a remote call.
AfterContact(h, contact) ==
    LET g == [h EXCEPT !.contact = contact]
    IN IF conversations[h.conv] # "none"
       THEN /\ handlers' = handlers \ {h}
            /\ inLog' = Logged(h.n, AfterParams(g, contact, Get(conversations, h.conv)),
                               h.pc = "new")
       ELSE /\ handlers' = (handlers \ {h}) \cup {[g EXCEPT !.pc = "conversation"]}
            /\ inLog' = Logged(h.n, <<>>, h.pc = "new")

\* The Client emits a text event: the handler runs to its first await on
\* the network, in getContact, in getConversation or in the home operation.
Emit(from, conv) ==
    LET h == [n |-> inLog.nEvents + 1, from |-> from, conv |-> conv,
              contact |-> "null", pc |-> "new"]
    IN /\ session = "up"
       /\ inLog.nEvents < MaxEvents
       /\ IF contacts[FullId(from)] # "none"
          THEN AfterContact(h, Get(contacts, FullId(from)))
          ELSE /\ handlers' = handlers \cup {[h EXCEPT !.pc = "contact"]}
               /\ inLog' = Logged(h.n, <<>>, TRUE)
       /\ UNCHANGED <<session, contacts, conversations, lookups, cacheLog>>
       /\ UNCHANGED notInbound

\* api.getContact returns for the handler h (the contact is stored under
\* its mri), or throws (null is stored under the id asked for).
ContactReturns(h, ok) ==
    /\ h.pc = "contact"
    /\ contacts' = IF ok THEN [contacts EXCEPT ![FullId(h.from)] = "object"]
                   ELSE lookupFailed(contacts, FullId(h.from))
    /\ AfterContact(h, IF ok THEN "object" ELSE "null")
    /\ UNCHANGED <<session, conversations, lookups, cacheLog>>
    /\ UNCHANGED notInbound

\* api.getConversation returns for the handler h, or throws.
ConversationReturns(h, ok) ==
    /\ h.pc = "conversation"
    /\ conversations' = IF ok THEN [conversations EXCEPT ![h.conv] = "object"]
                        ELSE lookupFailed(conversations, h.conv)
    /\ AfterConversation(h, IF ok THEN "object" ELSE "null")
    /\ UNCHANGED <<session, contacts, lookups, cacheLog>>
    /\ UNCHANGED notInbound

\* A home operation that a handler awaits returns, or throws into the
\* listener.
HomeOpReturns(ok) ==
    /\ inLog.pending > 0
    /\ session' = onEvent(session, ~ok)
    /\ inLog' = [inLog EXCEPT !.pending = @ - 1, !.threw = @ \/ ~ok]
    /\ UNCHANGED <<handlers, contacts, conversations, lookups, cacheLog>>
    /\ UNCHANGED notInbound

\* The caches as a list load may have left them.
InboundInit ==
    /\ LifeInit("calls") /\ ConnectIdle /\ RelayInit /\ Idle
    /\ contacts \in [FullIds -> {"none", "object"}]
    /\ conversations \in [ConvIds -> {"none", "object"}]
    /\ lookups = EmptyBag
    /\ cacheLog = [failed |-> {}, stored |-> {}, startup |-> "idle", startups |-> 0,
                   last |-> NoCall("new")]

NextInbound ==
    \/ \E from \in {"8:alice"}, conv \in ConvIds : Emit(from, conv)
    \/ \E h \in handlers, ok \in BOOLEAN : ContactReturns(h, ok)
    \/ \E h \in handlers, ok \in BOOLEAN : ConversationReturns(h, ok)
    \/ \E ok \in BOOLEAN : HomeOpReturns(ok)

SpecInbound == InboundInit /\ [][NextInbound]_vars

\* ------------------------------------------- SpecIsolate: two accounts
\* Account 1 ("8:anna") and account 2 ("8:bert") are both in the group
\* conversation 19:group.  The remote events of account 2 come from either
\* identity.
Username(puppetId) == IF puppetId = 1 THEN "8:anna" ELSE "8:bert"

IsoIds == {7}

\* dedupeKey = `${puppetId};${roomId}`
dedupeKey(puppetId, roomId) == <<puppetId, roomId>>

\* The deduplicator s as the calls for room key k see it, and s with d in
\* that place: the lock and the entries are kept by room key, the author
\* ids for the deduplicator as a whole.
OfKey(s, k) ==
    [locked |-> k \in s.locks, authorIds |-> s.authorIds,
     data |-> {x[2] : x \in {y \in s.data : y[1] = k}}]

WithKey(s, k, d) ==
    [locks |-> IF d.locked THEN s.locks \cup {k} ELSE s.locks \ {k},
     authorIds |-> d.authorIds,
     data |-> {y \in s.data : y[1] # k} \cup {<<k, e>> : e \in d.data}]

\* handleMatrixMessage of account puppetId up to its await, and after it.
IsoLock(s, puppetId, c) ==
    LET k == dedupeKey(puppetId, "19:group")
    IN WithKey(s, k, lock(OfKey(s, k), Username(puppetId), c))

IsoUnlock(s, puppetId, id) ==
    LET k == dedupeKey(puppetId, "19:group")
    IN WithKey(s, k, unlock(OfKey(s, k), Username(puppetId), id))

\* The handler of account 2 for its n-th event ev, from dedupe() on, in
\* the run state st.
IsoDecide(ev, st) ==
    LET k == dedupeKey(2, "19:group")
        r == dedupe(OfKey(st.ded, k), ev.sender, ev.id, ev.content)
    IN [ded |-> WithKey(st.ded, k, r.dedup), deleted |-> st.deleted,
        waiting |-> st.waiting,
        out |-> [st.out EXCEPT ![ev.n] =
                    IF ev.kind = "text" THEN handleSkypeText(r.hit)
                    ELSE handleSkypeEdit(r.hit, ev.content, ev.id, st.deleted)]]

RECURSIVE IsoDrain(_, _)
IsoDrain(ws, st) ==
    IF ws = <<>> THEN st ELSE IsoDrain(Tail(ws), IsoDecide(Head(ws), st))

IsoState(r) ==
    [ded |-> iso.runs[r].ded, deleted |-> iso.runs[r].deleted, waiting |-> iso.runs[r].waiting,
     out |-> iso.log.out[r]]

\* The variables after each run r went to the state F[r].
IsoCommit(F, log) ==
    iso' = [runs |-> [r \in Runs |-> [ded |-> F[r].ded, deleted |-> F[r].deleted,
                                      waiting |-> F[r].waiting]],
            log |-> [log EXCEPT !.out = [r \in Runs |-> F[r].out]]]

\* Account 1 sends a home message: only in the run "with".
AMessage(c) ==
    /\ iso.log.aSends < MaxIsoSends
    /\ IsoCommit([r \in Runs |->
                     IF r = "with"
                     THEN [IsoState(r) EXCEPT !.ded = IsoLock(@, 1, c)]
                     ELSE IsoState(r)],
                 [iso.log EXCEPT !.aSends = @ + 1, !.aInFlight = @ + 1])
    /\ UNCHANGED notIsolate

\* Its send returns with a server id.  No handler of account 2 waits on
\* the room key of account 1.
ASendReturns(id) ==
    /\ iso.log.aInFlight > 0
    /\ IsoCommit([r \in Runs |->
                     IF r = "with"
                     THEN [IsoState(r) EXCEPT !.ded = IsoUnlock(@, 1, id)]
                     ELSE IsoState(r)],
                 [iso.log EXCEPT !.aInFlight = @ - 1])
    /\ UNCHANGED notIsolate

\* Account 2 sends a home message, in both runs.
BMessage(c) ==
    /\ iso.log.bSends < MaxIsoSends
    /\ IsoCommit([r \in Runs |-> [IsoState(r) EXCEPT !.ded = IsoLock(@, 2, c)]],
                 [iso.log EXCEPT !.bSends = @ + 1, !.bInFlight = @ + 1])
    /\ UNCHANGED notIsolate

\* Its send returns, in both runs: unlock, and the handlers waiting on the
\* room key go on.
BSendReturns(id) ==
    /\ iso.log.bInFlight > 0
    /\ IsoCommit([r \in Runs |->
                     IsoDrain(iso.runs[r].waiting,
                              [IsoState(r) EXCEPT !.ded = IsoUnlock(@, 2, id),
                                                  !.waiting = <<>>])],
                 [iso.log EXCEPT !.bInFlight = @ - 1])
    /\ UNCHANGED notIsolate

\* Account 2 redacts the item id from home, in both runs.
BRedact(id) ==
    /\ IsoCommit([r \in Runs |->
                     [IsoState(r) EXCEPT !.deleted = handleMatrixRedact(@, id)]],
                 iso.log)
    /\ UNCHANGED notIsolate

\* The Client of account 2 emits a remote event, in both runs: dedupe()
\* waits where the author is known and the room key locked.
BInbound(ev) ==
    LET e == [kind |-> ev.kind, id |-> ev.id, sender |-> ev.sender,
              content |-> ev.content, n |-> iso.log.nEvents + 1]
        k == dedupeKey(2, "19:group")
    IN /\ iso.log.nEvents < MaxIsoEvents
       /\ IsoCommit([r \in Runs |->
                        IF dedupeWaits(OfKey(iso.runs[r].ded, k), ev.sender)
                        THEN [IsoState(r) EXCEPT
                                 !.waiting = Append(@, e),
                                 !.out = [@ EXCEPT ![e.n] = "waiting"]]
                        ELSE IsoDecide(e, IsoState(r))],
                    [iso.log EXCEPT !.nEvents = @ + 1])
       /\ UNCHANGED notIsolate

NextIsolate ==
    \/ \E c \in Contents : AMessage(c)
    \/ \E id \in IsoIds : ASendReturns(id)
    \/ \E c \in Contents : BMessage(c)
    \/ \E id \in IsoIds : BSendReturns(id)
    \/ \E id \in IsoIds : BRedact(id)
    \/ \E ev \in [kind : {"text", "edit"}, id : IsoIds,
                 sender : {Username(1), Username(2)}, content : Contents] :
          BInbound(ev)

SpecIsolate == Init /\ [][NextIsolate]_vars

\* ---------------------------------------- markup: tokens and the tree
\* A message is a sequence of tokens: a character of text, an opening tag
\* with the one attribute the parsers read (href, authorname or type) and
\* its raw_pre/raw_post marker, or a closing tag.
Text(ch) == [t |-> "text", tag |-> "", attr |-> "", raw |-> "", text |-> ch]
Open(tag, attr, raw) == [t |-> "open", tag |-> tag, attr |-> attr, raw |-> raw, text |-> ""]
Close(tag) == [t |-> "close", tag |-> tag, attr |-> "", raw |-> "", text |-> ""]

Element(tag, attr, inner) == <<Open(tag, attr, "")>> \o inner \o <<Close(tag)>>

\* Parser.parse on well-formed markup: the nodes of toks up to the first
\* closing tag that is not theirs, and the tokens from there.  Adjacent
\* characters make one text node.
RECURSIVE ParseNodes(_)
ParseNodes(toks) ==
    IF toks = <<>> \/ Head(toks).t = "close"
    THEN [nodes |-> <<>>, rest |-> toks]
    ELSE IF Head(toks).t = "text"
    THEN LET r == ParseNodes(Tail(toks))
         IN IF r.nodes # <<>> /\ Head(r.nodes).nodeType = "TEXT_NODE"
            THEN [nodes |-> <<[Head(r.nodes) EXCEPT !.text = <<Head(toks).text>> \o @]>>
                                \o Tail(r.nodes),
                  rest |-> r.rest]
            ELSE [nodes |-> <<[nodeType |-> "TEXT_NODE", tagName |-> "",
                               attr |-> "", text |-> <<Head(toks).text>>,
                               childNodes |-> <<>>]>> \o r.nodes,
                  rest |-> r.rest]
    ELSE LET inner == ParseNodes(Tail(toks))
             after == ParseNodes(Tail(inner.rest))
         IN [nodes |-> <<[nodeType |-> "ELEMENT_NODE", tagName |-> Head(toks).tag,
                          attr |-> Head(toks).attr, text |-> <<>>,
                          childNodes |-> inner.nodes]>> \o after.nodes,
             rest |-> after.rest]

\* Parser.parse(`<wrap>${msg}</wrap>`): a root element without a tag name
\* around the wrap element.
ParserParse(m) ==
    [nodeType |-> "ELEMENT_NODE", tagName |-> "", attr |-> "", text |-> <<>>,
     childNodes |-> ParseNodes(Element("wrap", "", m)).nodes]

\* escape-html on the attribute values of the model.
escapeHtml(x) == IF x = "u&v" THEN "u&amp;v" ELSE IF x = "a&b" THEN "a&amp;b" ELSE x

RECURSIVE Flatten(_)
Flatten(ss) == IF ss = <<>> THEN <<>> ELSE Head(ss) \o Flatten(Tail(ss))

\* The messages of the model: runs of at most MaxText characters, and
\* elements nested at most MaxDepth deep, alone or followed by a character.
RECURSIVE TextRuns(_, _)
TextRuns(chars, n) ==
    IF n = 0 THEN {<<>>}
    ELSE LET shorter == TextRuns(chars, n - 1)
         IN shorter \cup {<<Text(ch)>> \o r : ch \in chars, r \in shorter}

RECURSIVE Markups(_, _, _, _)
Markups(chars, heads, leaves, d) ==
    IF d = 0 THEN TextRuns(chars, MaxText)
    ELSE LET inner == Markups(chars, heads, leaves, d - 1)
             elems == {<<h>> \o i \o <<Close(h.tag)>> : h \in heads, i \in inner}
                          \cup leaves
         IN inner \cup elems
                  \cup {e \o <<Text(ch)>> : e \in elems, ch \in {"x"}}

\* -------------------------------------- SpecEncode: MatrixMessageParser
\* The messages parsed, to the depth d: text of x and y, the recognized
\* elements and div.
MatrixMarkups(d) ==
    Markups({"x", "y"},
            {Open(tag, "", "") : tag \in {"em", "i", "strong", "b", "del", "code", "div"}}
                \cup {Open("a", href, "") : href \in {"u", "u&v"}},
            {}, d)

\* escape(s) returns s.
MatrixMessageParser_escape(text) == [i \in 1..Len(text) |-> Text(text[i])]

RECURSIVE MatrixMessageParser_walkNode(_)
MatrixMessageParser_walkChildNodes(node) ==
    Flatten([i \in 1..Len(node.childNodes) |->
                MatrixMessageParser_walkNode(node.childNodes[i])])

MatrixMessageParser_walkNode(node) ==
    IF node.nodeType = "TEXT_NODE" THEN MatrixMessageParser_escape(node.text)
    ELSE LET children == MatrixMessageParser_walkChildNodes(node)
             tagName == node.tagName
         IN CASE tagName \in {"em", "i"} ->
                     <<Open("i", "", "_")>> \o children \o <<Close("i")>>
              [] tagName \in {"strong", "b"} ->
                     <<Open("b", "", "*")>> \o children \o <<Close("b")>>
              [] tagName = "del" ->
                     <<Open("s", "", "~")>> \o children \o <<Close("s")>>
              [] tagName = "code" ->
                     <<Open("pre", "", "{code}")>> \o children \o <<Close("pre")>>
              [] tagName = "a" ->
                     <<Open("a", escapeHtml(node.attr), "")>> \o children \o <<Close("a")>>
              [] tagName = "wrap" -> children
              [] OTHER ->
                     IF tagName = "" THEN children
                     ELSE <<Open(tagName, "", "")>> \o children \o <<Close(tagName)>>

MatrixMessageParser_parse(m) == MatrixMessageParser_walkNode(ParserParse(m))

\* parse(msg), and parse of what it returned.
Encode ==
    /\ parser.parsed = <<>>
    /\ parser' = [parser EXCEPT !.parsed = <<MatrixMessageParser_parse(parser.markup)>>]
    /\ UNCHANGED notText

EncodeAgain ==
    /\ Len(parser.parsed) = 1
    /\ parser' = [parser EXCEPT !.parsed = Append(@, MatrixMessageParser_parse(@[1]))]
    /\ UNCHANGED notText

EncodeInit ==
    /\ LifeInit("calls") /\ ConnectIdle /\ CacheInit /\ RelayInit /\ InboundIdle /\ IsolateIdle
    /\ SessionIdle
    /\ \E m \in MatrixMarkups(MaxDepth) : parser = [NoMarkup EXCEPT !.markup = m]

NextEncode == Encode \/ EncodeAgain

SpecEncode == EncodeInit /\ [][NextEncode]_vars

\* --------------------------------------- SpecDecode: SkypeMessageParser
\* body and formattedBody are sequences of pieces: a piece of literal text
\* or the glyph node-emoji has under a name.
Lit(x) == [k |-> "lit", s |-> x]
Glyph(name) == [k |-> "glyph", s |-> name]

SsTypes == {"stareyes", "shivering", "nerd", "wonder", "a&b"}

\* The messages parsed, to the depth d: text with an entity and a newline,
\* the elements with children, span among them, the elements the parser
\* does not look into, and the plain texts of several lines.
SkypeMarkups(d) ==
    Markups({"x", "&amp;", "\n"},
            {Open(tag, "", "") : tag \in {"i", "b", "s", "pre", "span"}}
                \cup {Open("a", href, "") : href \in {"x", "u&v"}}
                \cup {Open("quote", "bob", "")},
            {Element("ss", type, <<>>) : type \in SsTypes}
                \cup {Element(tag, "", <<>>) : tag \in {"e_m", "legacyquote"}},
            d)
        \cup TextRuns({"x", "\n"}, MaxText + 1)

Has(m, tag) == \E i \in 1..Len(m) : m[i].tag = tag

\* decode-html on the characters of the model.
decodeHtml(ch) == IF ch = "&amp;" THEN "&" ELSE ch

\* escape(s): body decodeHtml(s), formattedBody s.replace("\n", "<br>"),
\* which replaces the first newline only.
SkypeMessageParser_escape(text) ==
    LET newlines == {i \in 1..Len(text) : text[i] = "\n"}
    IN [body |-> [i \in 1..Len(text) |-> Lit(decodeHtml(text[i]))],
        formattedBody |->
            [i \in 1..Len(text) |->
                IF i \in newlines /\ \A j \in newlines : i <= j
                THEN Lit("<br>") ELSE Lit(text[i])]]

\* The translation table of the ss case, with one entry that is a name and
\* one that is a glyph; Lit("") where the type has no entry.
emojiTable(type) ==
    CASE type = "stareyes" -> Lit("star-struck")
      [] type = "shivering" -> Glyph("cold_face")
      [] OTHER -> Lit("")

\* emoji.get(name): the glyph under the name, else `:name:`.  Asked for a
\* glyph, it returns the glyph where it looks glyphs up, else `:glyph:`.
emojiGet(x) ==
    IF x.k = "glyph"
    THEN IF parser.emoji.byCode THEN x ELSE [k |-> "colons", s |-> x.s]
    ELSE IF x.s \in parser.emoji.byName THEN Glyph(x.s) ELSE [k |-> "colons", s |-> x.s]

\* emojiType + "_face"
Face(x) ==
    IF x.k = "glyph" THEN Lit("cold_face glyph _face")
    ELSE Lit(CASE x.s = "star-struck" -> "star-struck_face"
               [] x.s = "nerd" -> "nerd_face"
               [] x.s = "wonder" -> "wonder_face"
               [] x.s = "a&b" -> "a&b_face"
               [] OTHER -> "_face")

\* The ss case of walkNode.
walkNode_ssNoFallback(type) ==
    LET entry == emojiTable(type)
        emojiType == IF entry = Lit("") THEN Lit(type) ELSE entry
        first == emojiGet(emojiType)
        e == IF first.k = "colons" THEN emojiGet(Face(emojiType)) ELSE first
    IN IF e.k # "colons" THEN [body |-> <<e>>, formattedBody |-> <<e>>]
       ELSE [body |-> <<Lit("("), Lit(type), Lit(")")>>,
             formattedBody |-> <<Lit("("), Lit(escapeHtml(type)), Lit(")")>>]

walkNode_ss(type) ==
    LET entry == emojiTable(type)
        haveEmojiType == entry # Lit("")
        emojiType == IF haveEmojiType THEN entry ELSE Lit(type)
        first == emojiGet(emojiType)
        e == IF first.k = "colons" THEN emojiGet(Face(emojiType)) ELSE first
    IN IF e.k # "colons" THEN [body |-> <<e>>, formattedBody |-> <<e>>]
       ELSE IF haveEmojiType
       THEN [body |-> <<emojiType>>, formattedBody |-> <<emojiType>>]
       ELSE [body |-> <<Lit("("), Lit(type), Lit(")")>>,
             formattedBody |-> <<Lit("("), Lit(escapeHtml(type)), Lit(")")>>]

\* The default case of walkNode.
walkNode_defaultWrapped(tagName, child) ==
    [body |-> child.body,
     formattedBody |-> <<Lit("<"), Lit(tagName), Lit(">")>> \o child.formattedBody
                           \o <<Lit("</"), Lit(tagName), Lit(">")>>]

walkNode_default(tagName, child) == child

RECURSIVE SkypeMessageParser_walkNode(_, _)
SkypeMessageParser_walkChildNodes(node, o) ==
    LET each == [i \in 1..Len(node.childNodes) |->
                    SkypeMessageParser_walkNode(node.childNodes[i], o)]
    IN IF Len(node.childNodes) = 0 THEN [body |-> <<>>, formattedBody |-> <<>>]
       ELSE [body |-> Flatten([i \in 1..Len(each) |-> each[i].body]),
             formattedBody |-> Flatten([i \in 1..Len(each) |-> each[i].formattedBody])]

SkypeMessageParser_walkNode(node, o) ==
    IF node.nodeType = "TEXT_NODE" THEN SkypeMessageParser_escape(node.text)
    ELSE LET child == SkypeMessageParser_walkChildNodes(node, o)
             tagName == node.tagName
         IN CASE tagName = "i" ->
                     [body |-> <<Lit("_")>> \o child.body \o <<Lit("_")>>,
                      formattedBody |-> <<Lit("<em>")>> \o child.formattedBody
                                            \o <<Lit("</em>")>>]
              [] tagName = "b" ->
                     [body |-> <<Lit("*")>> \o child.body \o <<Lit("*")>>,
                      formattedBody |-> <<Lit("<strong>")>> \o child.formattedBody
                                            \o <<Lit("</strong>")>>]
              [] tagName = "s" ->
                     [body |-> <<Lit("~")>> \o child.body \o <<Lit("~")>>,
                      formattedBody |-> <<Lit("<del>")>> \o child.formattedBody
                                            \o <<Lit("</del>")>>]
              [] tagName = "pre" ->
                     [body |-> <<Lit("{code}")>> \o child.body \o <<Lit("{code}")>>,
                      formattedBody |-> <<Lit("<code>")>> \o child.formattedBody
                                            \o <<Lit("</code>")>>]
              [] tagName = "a" ->
                     [body |-> IF child.body = <<Lit(node.attr)>> THEN <<Lit(node.attr)>>
                               ELSE <<Lit("[")>> \o child.body
                                        \o <<Lit("]("), Lit(node.attr), Lit(")")>>,
                      formattedBody |-> <<Lit("<a href=\""), Lit(escapeHtml(node.attr)),
                                          Lit("\">")>> \o child.formattedBody
                                            \o <<Lit("</a>")>>]
              [] tagName = "quote" ->
                     IF o.noQuotes THEN [body |-> <<>>, formattedBody |-> <<>>]
                     ELSE [body |-> <<Lit("> ")>> \o child.body \o <<Lit("\n")>>,
                           formattedBody |-> <<Lit("<blockquote>")>> \o child.formattedBody
                                                 \o <<Lit("<br> - "), Lit(node.attr),
                                                      Lit("</blockquote>")>>]
              [] tagName = "ss" -> walkNode_ss(node.attr)
              [] tagName \in {"e_m", "legacyquote"} ->
                     [body |-> <<>>, formattedBody |-> <<>>]
              [] OTHER -> walkNode_default(tagName, child)

SkypeMessageParser_parse(m, o) == SkypeMessageParser_walkNode(ParserParse(m), o)

Decode ==
    /\ parser.parsed = <<>>
    /\ parser' = [parser EXCEPT
                     !.parsed = <<SkypeMessageParser_parse(parser.markup, parser.opts)>>]
    /\ UNCHANGED notText

\* The options and the names node-emoji has a glyph for are drawn where the message has a
\* quote or an ss element to read them.
DecodeInit ==
    /\ LifeInit("calls") /\ ConnectIdle /\ CacheInit /\ RelayInit /\ InboundIdle /\ IsolateIdle
    /\ SessionIdle
    /\ \E m \in SkypeMarkups(MaxDepth) :
          parser \in [markup : {m},
                      opts : [noQuotes : IF Has(m, "quote") THEN BOOLEAN ELSE {FALSE}],
                      emoji : [byName : IF Has(m, "ss")
                                        THEN SUBSET {"star-struck", "star-struck_face",
                                                     "nerd", "nerd_face"}
                                        ELSE {{}},
                               byCode : IF Has(m, "ss") THEN BOOLEAN ELSE {FALSE}],
                      parsed : {<<>>}]

SpecDecode == DecodeInit /\ [][Decode]_vars

\* ------------------------------------------------------------- claims
\* How many Clients of account id have a running poller.
LiveSessions(id) ==
    LET live == {c \in BagToSet(clients) : c.pup = id /\ c.listening}
        RECURSIVE Sum(_)
        Sum(S) == IF S = {} THEN 0
                  ELSE LET c == CHOOSE x \in S : TRUE
                       IN CopiesIn(c, clients) + Sum(S \ {c})
    IN Sum(live)

\* C1: in every reachable state each account id has at most one live
\* session, a Client that has connected and has not been disconnected.
C1_AtMostOneLiveSession == \A id \in PuppetIds : LiveSessions(id) <= 1

\* C8: for one account no more than one reconnect scheduled by the error
\* handler is pending at any time, whatever number of error events arrive
\* before it fires.
C8_AtMostOnePendingReconnect == \A id \in PuppetIds : timers[id]["error"] <= 1

\* C9: once a fatal error has stopped an account, no connection attempt is
\* made for it until newPuppet is invoked again (which resets fatal),
\* whatever timers were scheduled before.
C9_NoConnectAfterFatal ==
    [][\A id \in PuppetIds :
          (fatal[id] /\ fatal'[id]) => nClients' = nClients]_vars

\* C10: a reconnect timer that fires for an account that has been deleted
\* and not registered again creates no session, makes no connection attempt
\* and sends nothing to the home network.
C10_TimerAfterDeleteDoesNothing ==
    [][\A id \in PuppetIds :
          (PendingReconnects(id)' < PendingReconnects(id) /\ ~puppets[id].reg)
              => /\ clients' = clients
                 /\ nClients' = nClients
                 /\ puppets' = puppets
                 /\ io' = <<"timer">>]_vars

\* C10's case: a timer has just fired for an unregistered account and
\* found nothing to do.
C10_Witness ==
    \E id \in PuppetIds : ~puppets[id].reg /\ io = <<"timer">> /\ nClients > 0

\* C5: connect() makes at most one stored-session login and at most one
\* credential login; the session login is made, and made first, exactly
\* when there is a blob; a credential login is made only when there is no
\* blob, the session login failed, or validation failed on the reused
\* session.
C5_LoginOrderAndCount ==
    /\ connLog.sessLogins <= 1
    /\ connLog.credLogins <= 1
    /\ client.pc # "new" => connLog.sessLogins = (IF client.state THEN 1 ELSE 0)
    /\ connLog.credLogins > 0 =>
          \/ ~client.state
          \/ "sessionLogin" \in connLog.failed
          \/ "validation" \in connLog.failed

\* C5's case: a blob was present, the session login succeeded, validation
\* failed and connect() returned after its one credential login.
C5_Witness ==
    /\ client.state /\ client.pc = "returned"
    /\ connLog.sessLogins = 1 /\ connLog.credLogins = 1
    /\ "validation" \in connLog.failed

\* C6: connect() fails whenever its credential login fails; and when it
\* fails, the credential login, the startupApi after it or setStatus has
\* failed: a failed session login or a failed validation of the reused
\* session alone does not make it fail.
C6_FailsOnlyOnCredentialPath ==
    /\ "credentialLogin" \in connLog.failed => client.pc = "failed"
    /\ client.pc = "failed" =>
          connLog.failed \cap {"credentialLogin", "startupApi", "setStatus"} # {}

\* C6's case: the session login or the validation of the reused session
\* failed and connect() returned all the same.
C6_Witness ==
    /\ client.pc = "returned"
    /\ connLog.failed \cap {"sessionLogin", "validation"} # {}

\* C7: a disconnect() call leaves the Client not listening and without
\* refresh timer and raises no error, also when it is the second call or
\* the Client never connected.
C7_DisconnectIdempotent ==
    connLog.last = "disconnect" =>
        ~client.listening /\ ~client.interval /\ ~connLog.error

\* C7's case: a second disconnect() after one that stopped a poller or timer.
C7_Witness ==
    connLog.last = "disconnect" /\ connLog.disconnects >= 2 /\ connLog.stopped

IsCall == cacheLog.last.op \in {"getContact", "getConversation"}

LastKind == IF cacheLog.last.op = "getContact" THEN "contact" ELSE "conversation"

\* C4 as claimed: once a call for an id has returned absent because its
\* lookup failed, every later call for that id returns absent and issues
\* no remote lookup.
C4_AbsentForever ==
    (IsCall /\ cacheLog.last.afterFail) =>
        cacheLog.last.ret = "null" /\ ~cacheLog.last.lookup

\* C4 amended: once a call for an id has returned absent because its lookup
\* failed, no later call for that id issues a remote lookup, and it returns
\* absent unless a list load, a contact refresh or the answer of another
\* lookup has stored an entry under the id since.
C4_NoLookupAfterFailure ==
    (IsCall /\ cacheLog.last.afterFail) =>
        /\ ~cacheLog.last.lookup
        /\ \/ cacheLog.last.ret = "null"
           \/ <<LastKind, cacheLog.last.key>> \in cacheLog.stored

\* C4's case: a call for an id whose lookup failed before is answered
\* absent from the cache.
C4_Witness ==
    /\ IsCall /\ cacheLog.last.afterFail
    /\ cacheLog.last.ret = "null" /\ ~cacheLog.last.lookup

C3_EditOrRedact ==
    \A i \in DOMAIN relayLog.last :
        LET d == relayLog.last[i]
        IN (d.kind = "edit" /\ ~d.hit) =>
              d.out = IF ~d.empty THEN <<"sendEdit">>
                      ELSE IF d.redacted THEN <<>>
                      ELSE <<"sendRedact">>

\* C3's case: an edit without content for an id redacted from home.
C3_Witness ==
    \E i \in DOMAIN relayLog.last :
        LET d == relayLog.last[i]
        IN d.kind = "edit" /\ ~d.hit /\ d.empty /\ d.redacted /\ d.out = <<>>

\* C11: when the startClient call whose connect() failed in the credential
\* login ends, it has scheduled no further connection attempt.
C11_NoRetryAfterRejectedLogin ==
    [][\A c \in BagToSet(clients) :
          (/\ c.pc = "statusFailed" /\ c.failedAt = "login"
           /\ clients' = Replace(clients, c, EndCatch(c)))
              => timers' = timers]_vars

\* C12's first half: when a startClient call whose connect() failed ends,
\* it has scheduled exactly one retry (which implies that its catch block
\* ran to the end and no exception escaped).
C12_OneRetryPerFailedConnect ==
    [][\A c \in BagToSet(clients) :
          (/\ c.pc = "statusFailed"
           /\ c.failedAt \in {"login", "connect"}
           /\ clients' = Replace(clients, c, EndCatch(c)))
              => timers' = setTimeout(timers, c.pup, "connect")]_vars

\* C13: the home operations of the remote events of one account are
\* called in the order in which the Client emitted the events.
C13_RelayedInArrivalOrder ==
    \A i, j \in DOMAIN inLog.ops : i < j => inLog.ops[i] < inLog.ops[j]

\* C17: a home operation that fails while a remote event is handled leaves
\* the session up: the failure ends in the listener, nothing is torn down
\* and the Client goes on emitting events.
C17_HomeFailureContained == inLog.threw => session = "up"

\* C17's case: after a home operation threw, the home operation of
\* another event was called.
C17_Witness == inLog.afterThrow /\ session = "up"

C15_UnlockedWithServerId ==
    \A i \in DOMAIN relayLog.last :
        relayLog.last[i].owed => relayLog.last[i].out = <<>>

C18_UnknownTagStripped ==
    parser.parsed # <<>> =>
        /\ \A i \in 1..Len(parser.parsed[1]) :
              parser.parsed[1][i].t # "text" => parser.parsed[1][i].tag \in {"i", "b", "s", "pre", "a"}
        /\ (\A i \in 1..Len(parser.markup) : parser.markup[i].t = "text") =>
              \A n \in 1..Len(parser.parsed) : parser.parsed[n] = parser.markup

\* C19: an element with an unrecognized tag decodes to the concatenation of
\* the bodies and of the formatted bodies of its children, without a
\* wrapper; without children, and for the empty message, both are empty.
C19_UnknownTagConcatenatesChildren ==
    parser.parsed # <<>> =>
        /\ parser.markup = <<>> => parser.parsed[1] = [body |-> <<>>, formattedBody |-> <<>>]
        /\ (/\ parser.markup # <<>>
            /\ Head(parser.markup) = Open("span", "", "")
            /\ parser.markup[Len(parser.markup)].t = "close") =>
              LET kids == ParseNodes(SubSeq(parser.markup, 2, Len(parser.markup) - 1)).nodes
                  each == [i \in 1..Len(kids) |->
                              SkypeMessageParser_walkNode(kids[i], parser.opts)]
              IN parser.parsed[1] =
                     [body |-> Flatten([i \in 1..Len(kids) |-> each[i].body]),
                      formattedBody |->
                          Flatten([i \in 1..Len(kids) |-> each[i].formattedBody])]

\* An unrecognized element with two children, one of them an element, has
\* been decoded to a body that is not empty.
C19_Witness ==
    /\ parser.parsed # <<>>
    /\ parser.markup # <<>>
    /\ Head(parser.markup) = Open("span", "", "")
    /\ parser.markup[Len(parser.markup)].t = "close"
    /\ Len(ParseNodes(SubSeq(parser.markup, 2, Len(parser.markup) - 1)).nodes) = 2
    /\ parser.parsed[1].body # <<>>
    /\ parser.parsed[1].formattedBody # parser.parsed[1].body

\* C20 as stated: an ss element whose type has a table entry decodes to a
\* glyph in both projections; one whose type has no entry and no glyph
\* under type or type_face decodes to (type) and (escaped type).
C20_KnownTypeIsGlyph ==
    \A type \in SsTypes :
        (parser.parsed # <<>> /\ parser.markup = Element("ss", type, <<>>)) =>
            /\ emojiTable(type) # Lit("") =>
                  /\ Len(parser.parsed[1].body) = 1
                  /\ parser.parsed[1].body[1].k = "glyph"
                  /\ parser.parsed[1].formattedBody = parser.parsed[1].body
            /\ (/\ emojiTable(type) = Lit("")
                /\ type \notin parser.emoji.byName
                /\ Face(Lit(type)).s \notin parser.emoji.byName) =>
                  /\ parser.parsed[1].body = <<Lit("("), Lit(type), Lit(")")>>
                  /\ parser.parsed[1].formattedBody = <<Lit("("), Lit(escapeHtml(type)), Lit(")")>>

\* C20 amended: an ss element whose type has a table entry decodes, in both
\* projections, to the glyph under the entry's name or under name_face
\* where node-emoji has one, and otherwise to the entry itself, never to
\* (type); one whose type has no entry and no glyph under type or
\* type_face decodes to (type) and (escaped type).
C20_KnownTypeIsGlyphOrEntry ==
    \A type \in SsTypes :
        (parser.parsed # <<>> /\ parser.markup = Element("ss", type, <<>>)) =>
            LET entry == emojiTable(type)
            IN /\ entry # Lit("") =>
                     /\ parser.parsed[1].formattedBody = parser.parsed[1].body
                     /\ parser.parsed[1].body =
                            IF entry.k = "lit" /\ entry.s \in parser.emoji.byName
                            THEN <<Glyph(entry.s)>>
                            ELSE IF entry.k = "lit" /\ Face(entry).s \in parser.emoji.byName
                            THEN <<Glyph(Face(entry).s)>>
                            ELSE <<entry>>
               /\ (/\ entry = Lit("")
                   /\ type \notin parser.emoji.byName
                   /\ Face(Lit(type)).s \notin parser.emoji.byName) =>
                     /\ parser.parsed[1].body = <<Lit("("), Lit(type), Lit(")")>>
                     /\ parser.parsed[1].formattedBody =
                            <<Lit("("), Lit(escapeHtml(type)), Lit(")")>>

\* The type stareyes has been decoded where node-emoji has no glyph under
\* star-struck or star-struck_face: the result is the entry, as text.
C20_Witness ==
    /\ parser.parsed # <<>>
    /\ parser.markup = Element("ss", "stareyes", <<>>)
    /\ parser.emoji.byName \cap {"star-struck", "star-struck_face"} = {}
    /\ parser.parsed[1].body = <<Lit("star-struck")>>

\* C21: getConversation for a room id dm-<n>-<id> whose n is not the room's
\* puppet id returns null, whatever the cache holds, calls no remote lookup
\* and changes no cache; where n is the puppet id, the cache is read and
\* the remote lookup made under the id behind the prefix.
C21_PrefixChecked ==
    [][\A room \in [puppetId : {1}, dm : {1, 2}, conv : ConvIds] :
          (cacheLog'.last.op = "getConversation" /\ GetConversation(room)) =>
              IF room.dm # room.puppetId
              THEN /\ cacheLog'.last.ret = "null"
                   /\ ~cacheLog'.last.lookup
                   /\ UNCHANGED <<contacts, conversations, lookups>>
              ELSE /\ cacheLog'.last.key = room.conv
                   /\ UNCHANGED <<contacts, conversations>>
                   /\ IF conversations[room.conv] = "none"
                      THEN lookups' = lookups (+)
                               SetToBag({[kind |-> "conversation", key |-> room.conv]})
                      ELSE /\ lookups' = lookups
                           /\ cacheLog'.last.ret = Get(conversations, room.conv)]_vars

\* getConversation has returned null for a room id of another puppet while
\* the cache holds the conversation under the id behind the prefix.
C21_Witness ==
    /\ cacheLog.last.op = "getConversation"
    /\ cacheLog.last.ret = "null"
    /\ ~cacheLog.last.lookup
    /\ conversations[cacheLog.last.key] = "object"

\* C22: a home message, edit, file or redaction whose conversation does not
\* resolve, or whose account is not registered, sends nothing to the remote
\* side, takes no deduplication lock, records no deleted message and stores
\* nothing in the event-id correlation store.
C22_UnresolvedHomeEventInert ==
    [][\/ /\ UNCHANGED <<dedup, deletedMessages, sends, waiting>>
          /\ relayLog'.synced = relayLog.synced
          /\ relayLog'.nSends = relayLog.nSends
       \/ \A p \in BOOLEAN, conv \in BOOLEAN, id \in ForeignIds, c \in Contents :
             ~(/\ ~(p /\ conv)
               /\ \/ MatrixMessage(p, conv, c)
                  \/ MatrixEdit(p, conv, id, c)
                  \/ MatrixRedact(p, conv, id))]_vars

\* A home redaction was dropped while a send awaited its result under the
\* lock.
C22_Witness ==
    /\ relayLog.last = <<[dropped |-> "redact", out |-> <<>>, content |-> "", key |-> ""]>>
    /\ dedup.locked
    /\ sends # EmptyBag

\* C23: a remote text, file, edit or typing event whose contact or
\* conversation does not resolve issues no home operation, and the
\* deduplicator is neither asked nor changed.
C23_UnresolvedRemoteEventInert ==
    [][\/ /\ UNCHANGED <<dedup, deletedMessages, sends, waiting>>
          /\ \A i \in DOMAIN relayLog'.last : relayLog'.last[i].out = <<>>
       \/ \A ev \in Events, contact \in BOOLEAN, conversation \in BOOLEAN :
             ~(~(contact /\ conversation) /\ Inbound(ev, contact, conversation))]_vars

\* A remote file event was dropped while the deduplicator held an entry
\* and its room was locked.
C23_Witness ==
    /\ relayLog.last = <<[dropped |-> "file", out |-> <<>>, content |-> "", key |-> ""]>>
    /\ dedup.locked
    /\ dedup.data # {}

C25_EmittedOncePerWindow ==
    \A id \in EventIds : acct.log.emits[id] <= 1

\* C27: after a failed contact refresh the refresh timer of the Client is
\* still armed.
C27_RefreshTimerSurvivesFailure ==
    acct.log.refreshFailed => acct.client.interval

\* C28: a contact cache entry, tombstones included, is removed only when
\* the account is deleted.
C28_CacheEntryRemovedOnlyByDelete ==
    [][(acct.client.contact # "none" /\ acct'.client.contact = "none")
          => (acct.reg /\ ~acct'.reg)]_vars

\* C26: when startClient calls connect(), the listeners of text, edit,
\* file, typing, presence, updateContact and error have been registered
\* on that Client.
C26_ListenersBeforeConnect ==
    \A k \in DOMAIN io :
        io[k] \in {"connect:state", "connect:credentials"}
        => \A on \in {"on:text", "on:edit", "on:file", "on:typing", "on:presence",
                      "on:updateContact", "on:error"} :
              \E j \in 1..(k - 1) : io[j] = on

\* A reconnect timer's startClient has called connect().
C26_Witness ==
    /\ Len(io) > 1
    /\ io[1] = "timer"
    /\ io[Len(io)] \in {"connect:state", "connect:credentials"}

\* C29: the startClient call of the reconnect timer set after a transient
\* error calls connect() on a Client that logs in with the credentials
\* first, not with the stored session.
C29_ReconnectWithCredentials ==
    [][\A id \in PuppetIds :
          (TimerFire(id, "error") /\ puppets[id].reg)
          => io'[Len(io')] = "connect:credentials"]_vars

\* C30: a message that is one plain-text node decodes to a body that is
\* the entity-decoded text and a formattedBody in which every newline of
\* the text is <br>.
C30_EveryNewlineReplaced ==
    (/\ parser.parsed # <<>>
     /\ parser.markup # <<>>
     /\ \A i \in DOMAIN parser.markup : parser.markup[i].t = "text")
    => parser.parsed[1] =
           [body |-> [i \in DOMAIN parser.markup |->
                         Lit(decodeHtml(parser.markup[i].text))],
            formattedBody |->
                [i \in DOMAIN parser.markup |->
                    IF parser.markup[i].text = "\n" THEN Lit("<br>")
                    ELSE Lit(parser.markup[i].text)]]

C32_ListeningWhenConnected ==
    (client.pc = "returned" /\ connLog.disconnects = 0) => client.listening

\* C33: the lock of the deduplicator is held only while a home handler
\* awaits its send: once every handler that locked has finished, whether
\* its send returned or threw, the lock is released.
C33_NoLockLeftByHandler == dedup.locked => sends # EmptyBag

\* C34: once the error handler runs for a transient error
\* (UnexpectedHttpStatus), the account is eventually deleted, or a reconnect
\* timer is armed for it, or a timer's callback has called startClient.
C34_ReconnectAfterTransientError ==
    \A id \in PuppetIds :
        (errTasks[id]["status"] > 0)
            ~> (\/ ~puppets[id].reg
                \/ PendingReconnects(id) > 0
                \/ (io # <<>> /\ io[1] = "timer"))

\* C35: while no Client has emitted "error" as the p.client of a registered
\* account, a run of the error handler to its end neither disconnects a
\* Client nor arms a reconnect timer for that account: the errors of
\* replaced Clients leave the current session alone.
C35_StaleErrorLeavesCurrentSession ==
    [][\A id \in PuppetIds :
          (puppets[id].reg /\ ~lifeLog.curErr[id] /\ errTasks'[id] # errTasks[id]
             /\ \E ok \in BOOLEAN : ErrTransient(id, ok) \/ ErrFatal(id, ok))
          => (clients' = clients /\ timers' = timers)]_vars

\* C36: a Client whose contact-refresh timer is armed is the p.client of
\* its account, and its connect() has not thrown.
C36_RefreshTimerOnlyOnCurrentSession ==
    \A c \in BagToSet(clients) :
        c.interval => (c.own = "cur" /\ c.failedAt \notin {"login", "connect"})

\* C37: no handler of a remote event issues a home operation while the
\* account it was emitted for has no entry in the registry.
C37_NoHomeOperationAfterDelete == ~acct.log.late

C39_RedactionNeverEchoed ==
    /\ relayLog.redacted \subseteq deletedMessages
    /\ \A i \in DOMAIN relayLog.last :
          LET d == relayLog.last[i]
          IN (d.kind = "edit" /\ d.empty /\ d.redacted)
                => \A k \in DOMAIN d.out : d.out[k] # "sendRedact"

\* A remote edit without content was decided while the redaction of its
\* id from home was on record, and nothing was relayed.
C39_Witness ==
    /\ relayLog.redacted # {}
    /\ relayLog.redacted \subseteq deletedMessages
    /\ \E i \in DOMAIN relayLog.last :
          LET d == relayLog.last[i]
          IN d.kind = "edit" /\ d.empty /\ d.redacted /\ d.out = <<>>

====
